---- MODULE Spec2Model ----
(***************************************************************************)
(* Krypton daemon: the server lifecycle controller (routers/servers.ts)    *)
(* for one server id.  Every HTTP handler is an async function; a step of  *)
(* the model is the code that runs between two awaits, so handlers of      *)
(* different requests interleave exactly at the awaits of the source.      *)
(* The container engine, the panel and the installer script are the        *)
(* environment: every call to them may succeed or fail.                    *)
(***************************************************************************)
EXTENDS Integers, Sequences, FiniteSets, TLC

\* ---------------------------------------------------------------- bounds
MaxRequests == 2
MaxContainers == 3
MaxConns == 2
MaxTicks == 3
MaxMessages == 1
MaxLines == 2
MaxStreams == 3
MaxAppends == 3
MaxRecords == 2
MaxPieces == 3
MaxSessions == 12
MaxBurst == 12

\* ------------------------------------------------------------ data model
NULL == "null"
NoContainer == 0
ServerId == "s1"
OtherId == "s2"
ContainerIds == 1..MaxContainers
Images == {"img1", "img2"}
Undefined == <<"undefined">>

\* ServerState (index.ts) and the engine's container status strings
Creating == "creating"
Installing == "installing"
InstallFailed == "install_failed"
Installed == "installed"
Starting == "starting"
Running == "running"
Updating == "updating"
UpdateFailed == "update_failed"
Stopping == "stopping"
Stopped == "stopped"
Errored == "errored"
Deleting == "deleting"
ServerState ==
  {Creating, Installing, InstallFailed, Installed, Starting, Running,
   Updating, UpdateFailed, Stopping, Stopped, Errored, Deleting}

\* ServerConfig.variables: one variable with rules "string|max:4"
StringRule == [kind |-> "string", n |-> 0]
NullableRule == [kind |-> "nullable", n |-> 0]
MaxRule(n) == [kind |-> "max", n |-> n]
PortRules == <<StringRule, MaxRule(4)>>
GoodVars ==
  << [name |-> "PORT", defaultValue |-> <<"2", "5">>,
      currentValue |-> Undefined, rules |-> PortRules] >>
BadVars ==
  << [name |-> "PORT", defaultValue |-> <<"9", "9", "9", "9", "9", "9">>,
      currentValue |-> Undefined, rules |-> PortRules] >>
\* the variable lists the panel serves, by name
Variables(k) ==
  IF k = "good" THEN GoodVars ELSE IF k = "bad" THEN BadVars ELSE <<>>
PanelConfigs ==
  { [dockerImage |-> "img1", variables |-> "good"],
    [dockerImage |-> "img1", variables |-> "bad"],
    [dockerImage |-> "img2", variables |-> "good"] }
NoConfig == [dockerImage |-> NULL, variables |-> NULL]

\* validateVariableValue: the first rule that decides wins, in list order
RECURSIVE validateFrom(_, _, _)
validateFrom(value, rules, i) ==
  IF i > Len(rules) THEN TRUE
  ELSE IF rules[i].kind = "nullable" /\ value = <<>> THEN TRUE
  ELSE IF rules[i].kind = "max" /\ Len(value) > rules[i].n THEN FALSE
  ELSE validateFrom(value, rules, i + 1)

validateVariableValue(value, rules) == validateFrom(value, rules, 1)

\* variable.currentValue ?? variable.defaultValue
VariableValue(v) ==
  IF v.currentValue # Undefined THEN v.currentValue ELSE v.defaultValue

\* processVariables throws when a variable's value breaks its rules
processVariablesThrows(k) ==
  \E i \in 1..Len(Variables(k)) :
    ~validateVariableValue(VariableValue(Variables(k)[i]),
                           Variables(k)[i].rules)

\* CreateServerRequest / UpdateServerRequest bodies
CreateRequests == [name : {"n1"}, memoryLimit : {1}, cpuLimit : {1}]
UpdateRequests ==
  [serverId : {ServerId, OtherId}, name : {"n2"}, memoryLimit : {2},
   cpuLimit : {2}, unitChanged : BOOLEAN, dockerImage : Images \cup {NULL}]
NoRequest ==
  [serverId |-> NULL, name |-> NULL, memoryLimit |-> 0, cpuLimit |-> 0,
   unitChanged |-> FALSE, dockerImage |-> NULL]
PowerActions == {"start", "stop", "restart", "kill"}
ExitCodes == {0, 2}
NoExit == -1

\* a row of table servers (index.ts initDb), or no row
NoRecord ==
  [exists |-> FALSE, state |-> NULL, docker_id |-> NoContainer, name |-> NULL,
   memory_limit |-> 0, cpu_limit |-> 0, image |-> NULL, variables |-> NULL]
AbsentContainer == [status |-> "absent", image |-> NULL, label |-> NULL]
NoVolume == [dir |-> FALSE, workspace |-> FALSE, log |-> FALSE]

Installers == {"create", "reinstall"}
Handlers == {"create", "patch", "reinstall"}

VARIABLES
  rec,         \* the servers row of ServerId
  containers,  \* the engine: runtime containers by id
  nextId,      \* the next container id the engine hands out
  installer,   \* owner of the container named <id>_install, or NULL
  volume,      \* the volume directory of ServerId on disk
  create,      \* POST /
  patch,       \* PATCH /:id
  reinstall,   \* POST /:id/reinstall
  del,         \* DELETE /:id
  power,       \* POST /:id/power/:action
  install,     \* runInstallation, per caller
  ops,         \* per handler: the operations it has performed, in order
  nreq         \* requests accepted so far

\* WebSocketManager (routers/websocket.ts)
VARIABLES
  sock,        \* per connection: the connection handler and its socket
  pw,          \* per connection: handlePowerAction of a power_action message
  retry,       \* per connection: the setTimeout(attachLogs, 5000) of a session
  streams,     \* the log streams container.logs() has returned
  emitted,     \* number of log lines the container has written so far
  ring,        \* logBuffers.get(ServerId): the log ring
  cache,       \* validationCache, by the token presented for ServerId
  nmsg         \* power_action messages received so far

VARIABLES
  now,         \* Date.now(), in ms since the daemon started
  call,        \* a function of the daemon applied to an argument
  big          \* the engine's lines longer than MAX_PAYLOAD_SIZE bytes

auxVars == <<now, call, big>>
wsVars == <<sock, pw, retry, streams, emitted, ring, cache, nmsg, auxVars>>

vars ==
  <<rec, containers, nextId, installer, volume, create, patch, reinstall,
    del, power, install, ops, nreq, wsVars>>

\* ------------------------------------------------------------ the engine
Exists(c) == c \in ContainerIds /\ containers[c].status # "absent"
IsRunning(c) == c \in ContainerIds /\ containers[c].status = "running"
\* docker.createContainer({name: safeServerId, ...}): the name must be free
NameFree == \A c \in ContainerIds : ~Exists(c)
WithStatus(c, s) == [containers EXCEPT ![c].status = s]
Removed(c) == [containers EXCEPT ![c] = AbsentContainer]
Created(c, image) ==
  [containers EXCEPT ![c] =
     [status |-> "created", image |-> image, label |-> ServerId]]

Log(h, tag) == [ops EXCEPT ![h] = Append(@, tag)]
Idle(h) == h.pc \in {"idle", "done"}
Accept == nreq < MaxRequests /\ nreq' = nreq + 1


\* ------------------------------------------------------------------ Init
IdleCreate ==
  [pc |-> "idle", req |-> [name |-> NULL, memoryLimit |-> 0, cpuLimit |-> 0],
   cfg |-> NoConfig, dockerId |-> NoContainer, status |-> 0, error |-> NULL,
   startFailed |-> FALSE]
\* server: the row PATCH selected (docker_id, image); was: the state the row
\* had then (the handler does not read it)
IdlePatch ==
  [pc |-> "idle", req |-> NoRequest,
   server |-> [docker_id |-> NoContainer, image |-> NULL], was |-> NULL,
   cfg |-> NoConfig, newId |-> NoContainer, status |-> 0, error |-> NULL]
IdleReinstall == [pc |-> "idle", docker_id |-> NoContainer, status |-> 0]
IdleDelete == [pc |-> "idle", docker_id |-> NoContainer, status |-> 0]
IdlePower ==
  [pc |-> "idle", action |-> NULL, docker_id |-> NoContainer,
   inspected |-> NULL, status |-> 0]
IdleInstall == [pc |-> "off", exitCode |-> NoExit]

\* ---- WebSocketManager: its constants and the state before any connection
maxBroadcastsPerSecond == 10
CACHE_TTL == 600000
MAX_PAYLOAD_SIZE == 51200
\* validatePayloadSize, on the byte length of the text
validatePayloadSize(size) == size <= MAX_PAYLOAD_SIZE
\* the byte lengths tried: the largest accepted one and the next one
PayloadSizes == {MAX_PAYLOAD_SIZE, MAX_PAYLOAD_SIZE + 1}
MAX_LOGS == 100
INITIAL_LOGS == 10
Conns == 1..MaxConns
StreamIds == 1..MaxStreams
NoStream == 0
\* close codes (0: the socket is open)
Open == 0
PolicyViolation == 1008
InternalError == 1011
TryAgainLater == 1013
WsPowerActions == {"start", "stop", "restart", "kill"}
\* the text of the i-th line the container writes
LineText(i) == <<"line1", "line2", "line3">>[i]
LineSize(i) == IF i \in big THEN MAX_PAYLOAD_SIZE + 1 ELSE MAX_PAYLOAD_SIZE
Frame(ev, msg) == [ev |-> ev, msg |-> msg]
\* pc: where the connection handler is; timer: connectionTimeout; code: the
\* close code of the socket; evt: the socket's close event was emitted;
\* sampler: the interval of startResourceMonitoring is set;
\* session: sessions.has(socket); container, logStream: fields of the
\* session; frames: what the client has been sent; calls: panel calls made
IdleSock ==
  [pc |-> "none", timer |-> "off", code |-> Open, evt |-> FALSE,
   token |-> NULL, session |-> FALSE, container |-> NoContainer,
   logStream |-> NoStream, sampler |-> FALSE, frames |-> <<>>, calls |-> 0]
\* the tokens clients present for ServerId; a CachedValidation
Tokens == {"t1", "t2"}
NoEntry == [validation |-> NULL, timestamp |-> 0]
Cached(validation) == [validation |-> validation, timestamp |-> now]
\* a test of the cached entry that ignores its age
FreshForever(t) == cache[t] # NoEntry
\* validateToken's test of the cached entry of a token
Fresh(t) == cache[t] # NoEntry /\ now - cache[t].timestamp < CACHE_TTL
\* before: the ring when the message arrived; mark: the lines written when
\* the engine started the container (neither is read by the handler)
IdlePw ==
  [pc |-> "idle", action |-> NULL, before |-> <<>>, mark |-> 0,
   reply |-> NULL]
DeadStream == [owner |-> 0, live |-> FALSE, next |-> 0, half |-> FALSE]
NoCall == [f |-> "none", arg |-> NULL, res |-> NULL, done |-> TRUE]
WsIdle ==
  /\ sock = [c \in Conns |-> IdleSock]
  /\ pw = [c \in Conns |-> IdlePw]
  /\ retry = [c \in Conns |-> {}]
  /\ streams = [x \in StreamIds |-> DeadStream]
  /\ emitted = 0
  /\ ring = <<>>
  /\ cache = [t \in Tokens |-> NoEntry]
  /\ nmsg = 0
  /\ now = 0
  /\ call = NoCall
  /\ big = {}

\* krypton.db and the engine outlive the daemon: it starts with no server, or
\* with a server an earlier run created (row running, its container up)
Init ==
  /\ \/ /\ rec = NoRecord
        /\ containers = [c \in ContainerIds |-> AbsentContainer]
        /\ nextId = 1
        /\ volume = NoVolume
     \/ /\ rec = [exists |-> TRUE, state |-> Running, docker_id |-> 1,
                  name |-> "n1", memory_limit |-> 1, cpu_limit |-> 1,
                  image |-> "img1", variables |-> "good"]
        /\ containers =
             [c \in ContainerIds |->
                IF c = 1
                THEN [status |-> "running", image |-> "img1",
                      label |-> ServerId]
                ELSE AbsentContainer]
        /\ nextId = 2
        /\ volume = [dir |-> TRUE, workspace |-> FALSE, log |-> FALSE]
  /\ installer = NULL
  /\ create = IdleCreate
  /\ patch = IdlePatch
  /\ reinstall = IdleReinstall
  /\ del = IdleDelete
  /\ power = IdlePower
  /\ install = [p \in Installers |-> IdleInstall]
  /\ ops = [h \in Handlers |-> <<>>]
  /\ nreq = 0
  /\ WsIdle

\* InstallLogger.broadcast and the completion notice of create: the frame
\* goes to every client of the WebSocket server whose socket is open
wsRest == <<pw, retry, streams, emitted, ring, cache, nmsg, auxVars>>
ToClients(sks, text) ==
  [c \in Conns |->
     IF sks[c].pc # "none" /\ sks[c].code = Open
     THEN [sks[c] EXCEPT !.frames = Append(@, Frame("console_output", text))]
     ELSE sks[c]]

\* a catch block of runInstallation that does not write installation.log
SkipInstallLog(v) == v

\* ------------------------------------------- runInstallation (per caller)
\* the volume after the catch block of runInstallation wrote installation.log
\* (writeFile needs the volume directory; the workspace is left in place)
DumpInstallLog(v) == [v EXCEPT !.log = v.dir]

\* mkdir volume and .installation, prepareInstallationEnvironment (config
\* files, cargo downloads: a download may fail), then pullRequiredImages
InstallPrepare(p) ==
  /\ install[p].pc = "prepare"
  /\ volume' = [volume EXCEPT !.dir = TRUE, !.workspace = TRUE]
  /\ \E r \in {"ok", "cargoFailed", "pullFailed"} :
       /\ install' = [install EXCEPT ![p].pc = IF r = "ok" THEN "container"
                                               ELSE "catch"]
       /\ ops' = [ops EXCEPT ![p] =
                    IF r = "cargoFailed" THEN Append(@, "runInstall")
                    ELSE @ \o <<"runInstall", "pull">>]
  /\ UNCHANGED <<rec, containers, nextId, installer, create, patch,
                 reinstall, del, power, nreq>>
  /\ sock' = ToClients(sock, "installer")
  /\ UNCHANGED wsRest

\* writeInstallationScript (mkdir -p logs recreates the directories), then
\* runInstallationContainer: createContainer <id>_install, attach, start
InstallContainer(p) ==
  /\ install[p].pc = "container"
  /\ volume' = [volume EXCEPT !.dir = TRUE, !.workspace = TRUE]
  /\ \E ok \in BOOLEAN :
       IF ok /\ installer = NULL
       THEN /\ installer' = p
            /\ install' = [install EXCEPT ![p].pc = "wait"]
       ELSE /\ installer' = installer
            /\ install' = [install EXCEPT ![p].pc = "catch"]
  /\ ops' = Log(p, "installerCreate")
  /\ UNCHANGED <<rec, containers, nextId, create, patch, reinstall, del,
                 power, nreq>>
  /\ sock' = ToClients(sock, "installer")
  /\ UNCHANGED wsRest

\* monitorInstallation: container.wait(); AutoRemove removes the container
InstallWait(p) ==
  /\ install[p].pc = "wait"
  /\ installer = p
  /\ \E code \in ExitCodes :
       install' = [install EXCEPT ![p].pc = IF code = 0 THEN "cleanup"
                                                        ELSE "catch",
                                  ![p].exitCode = code]
  /\ installer' = NULL
  /\ ops' = Log(p, "wait")
  /\ UNCHANGED <<rec, containers, nextId, volume, create, patch, reinstall,
                 del, power, nreq>>
  /\ sock' = ToClients(sock, "installer")
  /\ UNCHANGED wsRest

\* success: rm -rf .installation
InstallCleanup(p) ==
  /\ install[p].pc = "cleanup"
  /\ volume' = [volume EXCEPT !.workspace = FALSE]
  /\ install' = [install EXCEPT ![p].pc = "ok"]
  /\ UNCHANGED <<rec, containers, nextId, installer, create, patch,
                 reinstall, del, power, ops, nreq>>
  /\ sock' = ToClients(sock, "installation completed")
  /\ UNCHANGED wsRest

\* catch: log "Installation failed", dump the buffer, rethrow
InstallCatch(p) ==
  /\ install[p].pc = "catch"
  /\ volume' = DumpInstallLog(volume)
  /\ install' = [install EXCEPT ![p].pc = "err"]
  /\ UNCHANGED <<rec, containers, nextId, installer, create, patch,
                 reinstall, del, power, ops, nreq>>
  /\ sock' = ToClients(sock, "installation failed")
  /\ UNCHANGED wsRest


\* ------------------------------------------------- POST /  (create server)
\* the row the INSERT of the create handler writes
InsertedRecord(req, cfg) ==
  [exists |-> TRUE, state |-> Installing, docker_id |-> NoContainer,
   name |-> req.name, memory_limit |-> req.memoryLimit,
   cpu_limit |-> req.cpuLimit, image |-> cfg.dockerImage,
   variables |-> cfg.variables]

\* a completion write that sets the state and leaves docker_id alone
CompletionWithoutId(r, dockerId) ==
  IF r.exists THEN [r EXCEPT !.state = Running] ELSE r

\* UPDATE servers SET docker_id = ?, state = running WHERE id = ?
CreateCompletionRecord(r, dockerId) ==
  IF r.exists THEN [r EXCEPT !.docker_id = dockerId, !.state = Running] ELSE r

\* UPDATE servers SET state = ? WHERE id = ?
WithState(r, s) == IF r.exists THEN [r EXCEPT !.state = s] ELSE r

CreateRequest ==
  /\ Idle(create)
  /\ Accept
  /\ \E req \in CreateRequests :
       create' = [IdleCreate EXCEPT !.pc = "fetch", !.req = req]
  /\ install' = [install EXCEPT !["create"] = IdleInstall]
  /\ ops' = [ops EXCEPT !["create"] = <<>>]
  /\ UNCHANGED <<rec, containers, nextId, installer, volume, patch,
                 reinstall, del, power>>
  /\ UNCHANGED wsVars

\* await fetchServerConfig(...): a config, or the error after 3 attempts
CreateFetchConfig ==
  /\ create.pc = "fetch"
  /\ \/ \E cfg \in PanelConfigs :
          create' = [create EXCEPT !.pc = "insert", !.cfg = cfg]
     \/ create' = [create EXCEPT !.pc = "done", !.status = 500,
                                 !.error = "PanelUnavailable"]
  /\ ops' = Log("create", "fetchConfig")
  /\ UNCHANGED <<rec, containers, nextId, installer, volume, patch,
                 reinstall, del, power, install, nreq>>
  /\ UNCHANGED wsVars

\* await db.run(INSERT ...): id is the primary key
CreateInsert ==
  /\ create.pc = "insert"
  /\ IF rec.exists
     THEN /\ create' = [create EXCEPT !.pc = "done", !.status = 500,
                                      !.error = "InsertFailed"]
          /\ UNCHANGED <<rec, ops>>
     ELSE /\ rec' = InsertedRecord(create.req, create.cfg)
          /\ create' = [create EXCEPT !.pc = "respond"]
          /\ ops' = Log("create", "installing")
  /\ UNCHANGED <<containers, nextId, installer, volume, patch, reinstall,
                 del, power, install, nreq>>
  /\ UNCHANGED wsVars

\* res.status(201).json(...); runInstallation(...) is called, not awaited
CreateRespond ==
  /\ create.pc = "respond"
  /\ create' = [create EXCEPT !.pc = "install", !.status = 201]
  /\ install' = [install EXCEPT !["create"].pc = "prepare"]
  /\ ops' = Log("create", "respond201")
  /\ UNCHANGED <<rec, containers, nextId, installer, volume, patch,
                 reinstall, del, power, nreq>>
  /\ UNCHANGED wsVars

\* the next position of the .then chain after createGameContainer's
\* chmod and processVariables, before docker.createContainer
createGameContainerError(vol, cfg) ==
  IF ~vol.dir THEN "VolumeMissing"
  ELSE IF processVariablesThrows(cfg.variables) THEN "VariableRuleViolation"
  ELSE NULL

\* .then: createGameContainer(...)
CreateGameContainer ==
  /\ create.pc = "install"
  /\ install["create"].pc = "ok"
  /\ LET err == createGameContainerError(volume, create.cfg) IN
     IF err # NULL
     THEN /\ create' = [create EXCEPT !.pc = "catch", !.error = err]
          /\ UNCHANGED <<containers, nextId, ops>>
     ELSE \E ok \in BOOLEAN :
            IF ok /\ NameFree
            THEN /\ nextId \in ContainerIds
                 /\ containers' = Created(nextId, create.cfg.dockerImage)
                 /\ nextId' = nextId + 1
                 /\ create' = [create EXCEPT !.pc = "start",
                                             !.dockerId = nextId]
                 /\ ops' = Log("create", "createContainer")
            ELSE /\ create' = [create EXCEPT !.pc = "catch",
                                  !.error = "ContainerCreateFailed"]
                 /\ ops' = Log("create", "createContainer")
                 /\ UNCHANGED <<containers, nextId>>
  /\ UNCHANGED <<rec, installer, volume, patch, reinstall, del, power,
                 install, nreq>>
  /\ UNCHANGED wsVars

\* try { container.start(); exec(...) } catch { warn, continue }
CreateStart ==
  /\ create.pc = "start"
  /\ \E ok \in BOOLEAN :
       IF ok /\ Exists(create.dockerId)
       THEN /\ containers' = WithStatus(create.dockerId, "running")
            /\ create' = [create EXCEPT !.pc = "write"]
       ELSE /\ containers' = containers
            /\ create' = [create EXCEPT !.pc = "write", !.startFailed = TRUE]
  /\ ops' = Log("create", "start")
  /\ UNCHANGED <<rec, nextId, installer, volume, patch, reinstall, del,
                 power, install, nreq>>
  /\ UNCHANGED wsVars

\* await db.run(UPDATE servers SET docker_id = ?, state = running ...)
CreateWriteRunning ==
  /\ create.pc = "write"
  /\ rec' = CreateCompletionRecord(rec, create.dockerId)
  /\ create' = [create EXCEPT !.pc = "done"]
  /\ ops' = Log("create", "running")
  /\ UNCHANGED <<containers, nextId, installer, volume, patch, reinstall,
                 del, power, install, nreq>>
  /\ sock' = ToClients(sock, "server installation completed")
  /\ UNCHANGED wsRest

\* .catch: UPDATE servers SET state = install_failed
CreateCatch ==
  /\ \/ create.pc = "catch"
     \/ create.pc = "install" /\ install["create"].pc = "err"
  /\ rec' = WithState(rec, InstallFailed)
  /\ create' = [create EXCEPT !.pc = "done",
                   !.error = IF @ = NULL THEN "InstallFailed" ELSE @]
  /\ ops' = Log("create", "install_failed")
  /\ UNCHANGED <<containers, nextId, installer, volume, patch, reinstall,
                 del, power, install, nreq>>
  /\ UNCHANGED wsVars


\* ------------------------------------------------ PATCH /:id  (update)
\* updateData.unitChanged && updateData.dockerImage
PullsImage(u) == u.unitChanged /\ u.dockerImage # NULL

\* recreateGameContainer: the config it builds from the stored row when the
\* unit did not change
StoredConfig(u, dbServer) ==
  [dockerImage |-> IF u.dockerImage # NULL THEN u.dockerImage
                   ELSE dbServer.image,
   variables |-> dbServer.variables]

\* a recreateGameContainer that goes to the old container without pulling
AfterConfigNoPull(u, currentDockerId) ==
  IF currentDockerId # NoContainer THEN "inspectOld" ELSE "createNew"

\* recreateGameContainer: where it goes once the startup command is
\* templated: the pull, then the old container, then the new one
AfterConfig(u, currentDockerId) ==
  IF PullsImage(u) THEN "pull"
  ELSE IF currentDockerId # NoContainer THEN "inspectOld"
  ELSE "createNew"

AfterPull(currentDockerId) ==
  IF currentDockerId # NoContainer THEN "inspectOld" ELSE "createNew"

\* the image column of recreateGameContainer's UPDATE
RecreateImage(u, cfg) ==
  IF PullsImage(u) THEN u.dockerImage ELSE cfg.dockerImage

\* the image column of the handler's own UPDATE
HandlerImage(u, server) ==
  IF PullsImage(u) THEN u.dockerImage ELSE server.image

\* UPDATE servers SET docker_id, state = running, name, memory_limit,
\* cpu_limit, image WHERE id
UpdatedRecord(r, dockerId, u, image) ==
  IF r.exists
  THEN [r EXCEPT !.docker_id = dockerId, !.state = Running, !.name = u.name,
                 !.memory_limit = u.memoryLimit, !.cpu_limit = u.cpuLimit,
                 !.image = image]
  ELSE r

\* the request is rejected with 400 before the row is read
PatchRequest ==
  /\ Idle(patch)
  /\ Accept
  /\ \E u \in UpdateRequests :
       patch' = IF u.serverId # ServerId
                THEN [IdlePatch EXCEPT !.pc = "done", !.req = u,
                                       !.status = 400]
                ELSE [IdlePatch EXCEPT !.pc = "read", !.req = u]
  /\ ops' = [ops EXCEPT !["patch"] = <<>>]
  /\ UNCHANGED <<rec, containers, nextId, installer, volume, create,
                 reinstall, del, power, install>>
  /\ UNCHANGED wsVars

\* SELECT docker_id, image FROM servers WHERE id = ?
PatchRead ==
  /\ patch.pc = "read"
  /\ patch' = IF rec.exists
              THEN [patch EXCEPT !.pc = "setUpdating", !.was = rec.state,
                      !.server = [docker_id |-> rec.docker_id,
                                  image |-> rec.image]]
              ELSE [patch EXCEPT !.pc = "done", !.status = 404]
  /\ UNCHANGED <<rec, containers, nextId, installer, volume, create,
                 reinstall, del, power, install, ops, nreq>>
  /\ UNCHANGED wsVars

\* UPDATE servers SET state = updating
PatchSetUpdating ==
  /\ patch.pc = "setUpdating"
  /\ rec' = WithState(rec, Updating)
  /\ patch' = [patch EXCEPT !.pc = "config"]
  /\ ops' = Log("patch", "updating")
  /\ UNCHANGED <<containers, nextId, installer, volume, create, reinstall,
                 del, power, install, nreq>>
  /\ UNCHANGED wsVars

\* recreateGameContainer: serverConfig, then processVariables
PatchConfig ==
  /\ patch.pc = "config"
  /\ \/ /\ patch.req.unitChanged
        /\ \/ \E cfg \in PanelConfigs :
                patch' =
                  IF processVariablesThrows(cfg.variables)
                  THEN [patch EXCEPT !.pc = "catch", !.cfg = cfg,
                                     !.error = "VariableRuleViolation"]
                  ELSE [patch EXCEPT !.cfg = cfg,
                          !.pc = AfterConfig(patch.req,
                                             patch.server.docker_id)]
           \/ patch' = [patch EXCEPT !.pc = "catch",
                                     !.error = "PanelUnavailable"]
        /\ ops' = Log("patch", "fetchConfig")
     \/ /\ ~patch.req.unitChanged
        /\ patch' =
             IF ~rec.exists
             THEN [patch EXCEPT !.pc = "catch", !.error = "RecordNotFound"]
             ELSE IF processVariablesThrows(rec.variables)
             THEN [patch EXCEPT !.pc = "catch",
                     !.cfg = StoredConfig(patch.req, rec),
                     !.error = "VariableRuleViolation"]
             ELSE [patch EXCEPT !.cfg = StoredConfig(patch.req, rec),
                     !.pc = AfterConfig(patch.req, patch.server.docker_id)]
        /\ ops' = ops
  /\ UNCHANGED <<rec, containers, nextId, installer, volume, create,
                 reinstall, del, power, install, nreq>>
  /\ UNCHANGED wsVars

\* pullDockerImage(docker, updateData.dockerImage)
PatchPull ==
  /\ patch.pc = "pull"
  /\ \E ok \in BOOLEAN :
       patch' = IF ok
                THEN [patch EXCEPT !.pc = AfterPull(patch.server.docker_id)]
                ELSE [patch EXCEPT !.pc = "catch",
                                   !.error = "ImagePullFailed"]
  /\ ops' = Log("patch", "pull")
  /\ UNCHANGED <<rec, containers, nextId, installer, volume, create,
                 reinstall, del, power, install, nreq>>
  /\ UNCHANGED wsVars

\* container.inspect() of the current container; an error is swallowed
PatchInspectOld ==
  /\ patch.pc = "inspectOld"
  /\ \E ok \in BOOLEAN :
       patch' =
         IF ok /\ Exists(patch.server.docker_id)
         THEN [patch EXCEPT !.pc = IF IsRunning(patch.server.docker_id)
                                   THEN "stopOld" ELSE "removeOld"]
         ELSE [patch EXCEPT !.pc = "createNew"]
  /\ ops' = Log("patch", "inspect")
  /\ UNCHANGED <<rec, containers, nextId, installer, volume, create,
                 reinstall, del, power, install, nreq>>
  /\ UNCHANGED wsVars

\* container.stop({t: 10}); an error is swallowed
PatchStopOld ==
  /\ patch.pc = "stopOld"
  /\ \E ok \in BOOLEAN :
       IF ok /\ Exists(patch.server.docker_id)
       THEN /\ containers' = WithStatus(patch.server.docker_id, "exited")
            /\ patch' = [patch EXCEPT !.pc = "removeOld"]
       ELSE /\ containers' = containers
            /\ patch' = [patch EXCEPT !.pc = "createNew"]
  /\ ops' = Log("patch", "stop")
  /\ UNCHANGED <<rec, nextId, installer, volume, create, reinstall, del,
                 power, install, nreq>>
  /\ UNCHANGED wsVars

\* container.remove() (no force: a running container is refused); an error
\* is swallowed
PatchRemoveOld ==
  /\ patch.pc = "removeOld"
  /\ \E ok \in BOOLEAN :
       IF ok /\ Exists(patch.server.docker_id)
             /\ ~IsRunning(patch.server.docker_id)
       THEN containers' = Removed(patch.server.docker_id)
       ELSE containers' = containers
  /\ patch' = [patch EXCEPT !.pc = "createNew"]
  /\ ops' = Log("patch", "remove")
  /\ UNCHANGED <<rec, nextId, installer, volume, create, reinstall, del,
                 power, install, nreq>>
  /\ UNCHANGED wsVars

\* docker.createContainer({name: safeServerId, Image: serverConfig.dockerImage})
PatchCreateNew ==
  /\ patch.pc = "createNew"
  /\ \E ok \in BOOLEAN :
       IF ok /\ NameFree
       THEN /\ nextId \in ContainerIds
            /\ containers' = Created(nextId, patch.cfg.dockerImage)
            /\ nextId' = nextId + 1
            /\ patch' = [patch EXCEPT !.pc = "startNew", !.newId = nextId]
       ELSE /\ patch' = [patch EXCEPT !.pc = "catch",
                                      !.error = "ContainerCreateFailed"]
            /\ UNCHANGED <<containers, nextId>>
  /\ ops' = Log("patch", "createContainer")
  /\ UNCHANGED <<rec, installer, volume, create, reinstall, del, power,
                 install, nreq>>
  /\ UNCHANGED wsVars

\* recreateGameContainer: container.start()
PatchStartNew ==
  /\ patch.pc = "startNew"
  /\ \E ok \in BOOLEAN :
       IF ok /\ Exists(patch.newId)
       THEN /\ containers' = WithStatus(patch.newId, "running")
            /\ patch' = [patch EXCEPT !.pc = "recreateWrite"]
       ELSE /\ containers' = containers
            /\ patch' = [patch EXCEPT !.pc = "catch",
                                      !.error = "ContainerStartFailed"]
  /\ ops' = Log("patch", "start")
  /\ UNCHANGED <<rec, nextId, installer, volume, create, reinstall, del,
                 power, install, nreq>>
  /\ UNCHANGED wsVars

\* recreateGameContainer: its UPDATE of the row
PatchRecreateWrite ==
  /\ patch.pc = "recreateWrite"
  /\ rec' = UpdatedRecord(rec, patch.newId, patch.req,
                          RecreateImage(patch.req, patch.cfg))
  /\ patch' = [patch EXCEPT !.pc = "startAgain"]
  /\ ops' = Log("patch", "running")
  /\ UNCHANGED <<containers, nextId, installer, volume, create, reinstall,
                 del, power, install, nreq>>
  /\ UNCHANGED wsVars

\* the handler: getContainer(newDockerId).start()
PatchStartAgain ==
  /\ patch.pc = "startAgain"
  /\ \E ok \in BOOLEAN :
       IF ok /\ Exists(patch.newId)
       THEN /\ containers' = WithStatus(patch.newId, "running")
            /\ patch' = [patch EXCEPT !.pc = "write"]
       ELSE /\ containers' = containers
            /\ patch' = [patch EXCEPT !.pc = "catch",
                                      !.error = "ContainerStartFailed"]
  /\ ops' = Log("patch", "start")
  /\ UNCHANGED <<rec, nextId, installer, volume, create, reinstall, del,
                 power, install, nreq>>
  /\ UNCHANGED wsVars

\* the handler: its UPDATE of the row
PatchWrite ==
  /\ patch.pc = "write"
  /\ rec' = UpdatedRecord(rec, patch.newId, patch.req,
                          HandlerImage(patch.req, patch.server))
  /\ patch' = [patch EXCEPT !.pc = "respond"]
  /\ ops' = Log("patch", "running")
  /\ UNCHANGED <<containers, nextId, installer, volume, create, reinstall,
                 del, power, install, nreq>>
  /\ UNCHANGED wsVars

\* SELECT * ...; res.json({message, server})
PatchRespond ==
  /\ patch.pc = "respond"
  /\ patch' = [patch EXCEPT !.pc = "done", !.status = 200]
  /\ UNCHANGED <<rec, containers, nextId, installer, volume, create,
                 reinstall, del, power, install, ops, nreq>>
  /\ UNCHANGED wsVars

\* a catch that answers 500 and leaves the row as it is
PatchCatchNoWrite ==
  /\ patch.pc = "catch"
  /\ patch' = [patch EXCEPT !.pc = "done", !.status = 500]
  /\ ops' = Log("patch", "update_failed")
  /\ UNCHANGED <<rec, containers, nextId, installer, volume, create,
                 reinstall, del, power, install, nreq>>
  /\ UNCHANGED wsVars

\* catch: UPDATE servers SET state = update_failed; 500
PatchCatch ==
  /\ patch.pc = "catch"
  /\ rec' = WithState(rec, UpdateFailed)
  /\ patch' = [patch EXCEPT !.pc = "done", !.status = 500]
  /\ ops' = Log("patch", "update_failed")
  /\ UNCHANGED <<containers, nextId, installer, volume, create, reinstall,
                 del, power, install, nreq>>
  /\ UNCHANGED wsVars


\* ------------------------------------------------ POST /:id/reinstall
\* an UPDATE that sets installing and keeps the old docker_id
ReinstallingKeepsId(r) ==
  IF r.exists THEN [r EXCEPT !.state = Installing] ELSE r

\* UPDATE servers SET state = installing, docker_id = NULL
ReinstallingRecord(r) ==
  IF r.exists THEN [r EXCEPT !.state = Installing, !.docker_id = NoContainer]
  ELSE r

ReinstallRequest ==
  /\ Idle(reinstall)
  /\ Accept
  /\ reinstall' = [IdleReinstall EXCEPT !.pc = "fetch"]
  /\ install' = [install EXCEPT !["reinstall"] = IdleInstall]
  /\ ops' = [ops EXCEPT !["reinstall"] = <<>>]
  /\ UNCHANGED <<rec, containers, nextId, installer, volume, create, patch,
                 del, power>>
  /\ UNCHANGED wsVars

\* await fetchServerConfig(...), before the row is looked up
ReinstallFetch ==
  /\ reinstall.pc = "fetch"
  /\ \E ok \in BOOLEAN :
       reinstall' = [reinstall EXCEPT !.pc = IF ok THEN "read" ELSE "catch"]
  /\ ops' = Log("reinstall", "fetchConfig")
  /\ UNCHANGED <<rec, containers, nextId, installer, volume, create, patch,
                 del, power, install, nreq>>
  /\ UNCHANGED wsVars

\* SELECT docker_id, memory_limit FROM servers WHERE id = ?
ReinstallRead ==
  /\ reinstall.pc = "read"
  /\ reinstall' =
       IF ~rec.exists THEN [reinstall EXCEPT !.pc = "done", !.status = 404]
       ELSE [reinstall EXCEPT !.docker_id = rec.docker_id,
               !.pc = IF rec.docker_id # NoContainer THEN "remove"
                      ELSE "setInstalling"]
  /\ UNCHANGED <<rec, containers, nextId, installer, volume, create, patch,
                 del, power, install, ops, nreq>>
  /\ UNCHANGED wsVars

\* container.remove({force: true}); an error is swallowed
ReinstallRemove ==
  /\ reinstall.pc = "remove"
  /\ \E ok \in BOOLEAN :
       IF ok /\ Exists(reinstall.docker_id)
       THEN containers' = Removed(reinstall.docker_id)
       ELSE containers' = containers
  /\ reinstall' = [reinstall EXCEPT !.pc = "setInstalling"]
  /\ ops' = Log("reinstall", "remove")
  /\ UNCHANGED <<rec, nextId, installer, volume, create, patch, del, power,
                 install, nreq>>
  /\ UNCHANGED wsVars

ReinstallSetInstalling ==
  /\ reinstall.pc = "setInstalling"
  /\ rec' = ReinstallingRecord(rec)
  /\ reinstall' = [reinstall EXCEPT !.pc = "install"]
  /\ install' = [install EXCEPT !["reinstall"].pc = "prepare"]
  /\ ops' = Log("reinstall", "installing")
  /\ UNCHANGED <<containers, nextId, installer, volume, create, patch, del,
                 power, nreq>>
  /\ UNCHANGED wsVars

\* UPDATE servers SET state = installed; 200
ReinstallWriteInstalled ==
  /\ reinstall.pc = "install"
  /\ install["reinstall"].pc = "ok"
  /\ rec' = WithState(rec, Installed)
  /\ reinstall' = [reinstall EXCEPT !.pc = "done", !.status = 200]
  /\ ops' = Log("reinstall", "installed")
  /\ UNCHANGED <<containers, nextId, installer, volume, create, patch, del,
                 power, install, nreq>>
  /\ UNCHANGED wsVars

\* catch: UPDATE servers SET state = install_failed; 500
ReinstallCatch ==
  /\ \/ reinstall.pc = "catch"
     \/ reinstall.pc = "install" /\ install["reinstall"].pc = "err"
  /\ rec' = WithState(rec, InstallFailed)
  /\ reinstall' = [reinstall EXCEPT !.pc = "done", !.status = 500]
  /\ ops' = Log("reinstall", "install_failed")
  /\ UNCHANGED <<containers, nextId, installer, volume, create, patch, del,
                 power, install, nreq>>
  /\ UNCHANGED wsVars

\* ------------------------------------------------------- DELETE /:id
DeleteRequest ==
  /\ Idle(del)
  /\ Accept
  /\ del' = [IdleDelete EXCEPT !.pc = "read"]
  /\ UNCHANGED <<rec, containers, nextId, installer, volume, create, patch,
                 reinstall, power, install, ops>>
  /\ UNCHANGED wsVars

\* SELECT docker_id FROM servers WHERE id = ?
DeleteRead ==
  /\ del.pc = "read"
  /\ del' =
       IF ~rec.exists THEN [del EXCEPT !.pc = "done", !.status = 404]
       ELSE [del EXCEPT !.docker_id = rec.docker_id,
               !.pc = IF rec.docker_id # NoContainer THEN "remove"
                      ELSE "rmVolume"]
  /\ UNCHANGED <<rec, containers, nextId, installer, volume, create, patch,
                 reinstall, power, install, ops, nreq>>
  /\ UNCHANGED wsVars

\* a removal whose error is not swallowed: the handler's catch answers 500
DeleteRemoveThrows ==
  /\ del.pc = "remove"
  /\ \E ok \in BOOLEAN :
       IF ok /\ Exists(del.docker_id)
       THEN /\ containers' = Removed(del.docker_id)
            /\ del' = [del EXCEPT !.pc = "rmVolume"]
       ELSE /\ containers' = containers
            /\ del' = [del EXCEPT !.pc = "done", !.status = 500]
  /\ UNCHANGED <<rec, nextId, installer, volume, create, patch, reinstall,
                 power, install, ops, nreq>>
  /\ UNCHANGED wsVars

\* container.remove({force: true, v: true}); an error is swallowed
DeleteRemove ==
  /\ del.pc = "remove"
  /\ \E ok \in BOOLEAN :
       IF ok /\ Exists(del.docker_id)
       THEN containers' = Removed(del.docker_id)
       ELSE containers' = containers
  /\ del' = [del EXCEPT !.pc = "rmVolume"]
  /\ UNCHANGED <<rec, nextId, installer, volume, create, patch, reinstall,
                 power, install, ops, nreq>>
  /\ UNCHANGED wsVars

\* fs.rm(volumePath, {recursive: true, force: true})
DeleteVolume ==
  /\ del.pc = "rmVolume"
  /\ volume' = NoVolume
  /\ del' = [del EXCEPT !.pc = "dbDelete"]
  /\ UNCHANGED <<rec, containers, nextId, installer, create, patch,
                 reinstall, power, install, ops, nreq>>
  /\ UNCHANGED wsVars

\* DELETE FROM servers WHERE id = ?; 204
DeleteRecord ==
  /\ del.pc = "dbDelete"
  /\ rec' = NoRecord
  /\ del' = [del EXCEPT !.pc = "done", !.status = 204]
  /\ UNCHANGED <<containers, nextId, installer, volume, create, patch,
                 reinstall, power, install, ops, nreq>>
  /\ UNCHANGED wsVars

\* ------------------------------------------ POST /:id/power/:action
HttpPowerActions == {"start", "stop", "restart"}

\* the engine's status after the action
StatusAfter(action) == IF action = "stop" THEN "exited" ELSE "running"

PowerRequest ==
  /\ Idle(power)
  /\ Accept
  /\ \E a \in PowerActions :
       power' = IF a \in HttpPowerActions
                THEN [IdlePower EXCEPT !.pc = "read", !.action = a]
                ELSE [IdlePower EXCEPT !.pc = "done", !.action = a,
                                       !.status = 400]
  /\ UNCHANGED <<rec, containers, nextId, installer, volume, create, patch,
                 reinstall, del, install, ops>>
  /\ UNCHANGED wsVars

\* SELECT docker_id FROM servers WHERE id = ?
PowerRead ==
  /\ power.pc = "read"
  /\ power' =
       IF rec.exists /\ rec.docker_id # NoContainer
       THEN [power EXCEPT !.pc = "act", !.docker_id = rec.docker_id]
       ELSE [power EXCEPT !.pc = "done", !.status = 404]
  /\ UNCHANGED <<rec, containers, nextId, installer, volume, create, patch,
                 reinstall, del, install, ops, nreq>>
  /\ UNCHANGED wsVars

\* a followed log stream ends when its container stops: after a stop, kill
\* or restart no stream opened before delivers anything more
StreamsAfter(st, action) ==
  IF action = "start" THEN st
  ELSE [x \in DOMAIN st |-> [st[x] EXCEPT !.live = FALSE]]

\* container.start() / stop() / restart(), whatever the container's state
PowerAct ==
  /\ power.pc = "act"
  /\ \E ok \in BOOLEAN :
       IF ok /\ Exists(power.docker_id)
       THEN /\ containers' = WithStatus(power.docker_id,
                                        StatusAfter(power.action))
            /\ power' = [power EXCEPT !.pc = "inspect"]
            /\ streams' = StreamsAfter(streams, power.action)
       ELSE /\ containers' = containers
            /\ power' = [power EXCEPT !.pc = "done", !.status = 500]
            /\ streams' = streams
  /\ UNCHANGED <<rec, nextId, installer, volume, create, patch, reinstall,
                 del, install, ops, nreq>>
  /\ UNCHANGED <<sock, pw, retry, emitted, ring, cache, nmsg, auxVars>>

\* container.inspect()
PowerInspect ==
  /\ power.pc = "inspect"
  /\ \E ok \in BOOLEAN :
       power' =
         IF ok /\ Exists(power.docker_id)
         THEN [power EXCEPT !.pc = "write",
                 !.inspected = containers[power.docker_id].status]
         ELSE [power EXCEPT !.pc = "done", !.status = 500]
  /\ UNCHANGED <<rec, containers, nextId, installer, volume, create, patch,
                 reinstall, del, install, ops, nreq>>
  /\ UNCHANGED wsVars

\* UPDATE servers SET state = status.State.Status; 200
PowerWrite ==
  /\ power.pc = "write"
  /\ rec' = WithState(rec, power.inspected)
  /\ power' = [power EXCEPT !.pc = "done", !.status = 200]
  /\ UNCHANGED <<containers, nextId, installer, volume, create, patch,
                 reinstall, del, install, ops, nreq>>
  /\ UNCHANGED wsVars

\* ---------------------------------- WebSocketManager: a connection
lifeVars ==
  <<nextId, installer, volume, create, patch, reinstall, del, install, ops>>

\* socket.send: nothing is sent on a socket that is no longer open
Send(sk, frame) ==
  IF sk.code = Open THEN [sk EXCEPT !.frames = Append(@, frame)] ELSE sk
\* socket.close(code): the first close decides the code
Close(sk, code) == IF sk.code = Open THEN [sk EXCEPT !.code = code] ELSE sk
\* clearTimeout(connectionTimeout)
ClearTimer(sk) ==
  IF sk.timer = "armed" THEN [sk EXCEPT !.timer = "cleared"] ELSE sk
\* the whole ring
AllLogs(logs) == logs
\* logs.slice(-INITIAL_LOGS)
LastLogs(logs) ==
  IF Len(logs) <= INITIAL_LOGS THEN logs
  ELSE SubSeq(logs, Len(logs) - INITIAL_LOGS + 1, Len(logs))
RECURSIVE SendAll(_, _)
SendAll(sk, logs) ==
  IF logs = <<>> THEN sk
  ELSE SendAll(Send(sk, Frame("console_output", Head(logs))), Tail(logs))
\* setupContainerSession's catch, then the handler's `if (!session)`
SetupFailed(sk) ==
  [ClearTimer(Close(sk, InternalError)) EXCEPT !.pc = "end"]

\* on('connection'): the timeout is set, the query is read; a missing server
\* id or token closes with 1008; validateToken reads the cache and, when the
\* entry is fresh, returns its verdict without a panel call
WsConnect(c) ==
  /\ sock[c].pc = "none"
  /\ \E t \in Tokens \cup {NULL} :
       sock' = [sock EXCEPT ![c] =
                  IF t = NULL
                  THEN [@ EXCEPT !.pc = "end", !.timer = "cleared",
                                 !.code = PolicyViolation]
                  ELSE IF ~Fresh(t)
                  THEN [@ EXCEPT !.pc = "validate", !.timer = "armed",
                                 !.token = t]
                  ELSE IF cache[t].validation = "valid"
                  THEN [@ EXCEPT !.pc = "setupRead", !.timer = "armed",
                                 !.token = t]
                  ELSE [@ EXCEPT !.pc = "end", !.timer = "cleared",
                                 !.token = t, !.code = PolicyViolation]]
  /\ UNCHANGED <<rec, containers, power, nreq, lifeVars, auxVars,
                 pw, retry, streams,
                 emitted, ring, cache, nmsg>>

\* the connectionTimeout callback, CONNECTION_TIMEOUT after the connection
WsTimeout(c) ==
  /\ sock[c].timer = "armed"
  /\ sock' = [sock EXCEPT ![c] =
                [Close(@, TryAgainLater) EXCEPT !.timer = "fired"]]
  /\ UNCHANGED <<rec, containers, power, nreq, lifeVars, auxVars,
                 pw, retry, streams,
                 emitted, ring, cache, nmsg>>

\* a handler that returns on a failed validation without closing the socket
WsValidateNoClose(c) ==
  /\ sock[c].pc = "validate"
  /\ \E r \in {"valid", "invalid", "transport"} :
       /\ cache' = IF r # "transport"
                   THEN [cache EXCEPT ![sock[c].token] = Cached(r)]
                   ELSE cache
       /\ sock' = [sock EXCEPT ![c] =
                    LET sk == [@ EXCEPT !.calls = @ + 1] IN
                    IF r = "valid" THEN [sk EXCEPT !.pc = "setupRead"]
                    ELSE [ClearTimer(sk) EXCEPT !.pc = "end"]]
  /\ UNCHANGED <<rec, containers, power, nreq, lifeVars, auxVars,
                 pw, retry, streams,
                 emitted, ring, nmsg>>

\* await validateToken after a cache miss: the one panel call answers and
\* the answer (whatever it says) is cached, or the call fails in transport
\* and validateToken yields null
WsValidate(c) ==
  /\ sock[c].pc = "validate"
  /\ \E r \in {"valid", "invalid", "transport"} :
       /\ cache' = IF r # "transport"
                   THEN [cache EXCEPT ![sock[c].token] = Cached(r)]
                   ELSE cache
       /\ sock' = [sock EXCEPT ![c] =
                    LET sk == [@ EXCEPT !.calls = @ + 1] IN
                    IF r = "valid" THEN [sk EXCEPT !.pc = "setupRead"]
                    ELSE [ClearTimer(Close(sk, PolicyViolation))
                            EXCEPT !.pc = "end"]]
  /\ UNCHANGED <<rec, containers, power, nreq, lifeVars, auxVars,
                 pw, retry, streams,
                 emitted, ring, nmsg>>

\* setupContainerSession: SELECT docker_id FROM servers WHERE id = ?
WsSetupRead(c) ==
  /\ sock[c].pc = "setupRead"
  /\ sock' = [sock EXCEPT ![c] =
                IF rec.exists /\ rec.docker_id # NoContainer
                THEN [@ EXCEPT !.pc = "setupInspect",
                               !.container = rec.docker_id]
                ELSE SetupFailed(@)]
  /\ UNCHANGED <<rec, containers, power, nreq, lifeVars, auxVars,
                 pw, retry, streams,
                 emitted, ring, cache, nmsg>>

\* container.inspect(); sessions.set(socket, session); the last
\* INITIAL_LOGS entries of the ring are sent
WsSetupInspect(c) ==
  /\ sock[c].pc = "setupInspect"
  /\ \E ok \in BOOLEAN :
       sock' = [sock EXCEPT ![c] =
                  IF ok /\ Exists(@.container)
                  THEN SendAll([@ EXCEPT !.pc = "setupStats",
                                         !.session = TRUE],
                               LastLogs(ring))
                  ELSE SetupFailed(@)]
  /\ UNCHANGED <<rec, containers, power, nreq, lifeVars, auxVars,
                 pw, retry, streams,
                 emitted, ring, cache, nmsg>>

\* container.stats(); the stats frame and auth_success are sent; attachLogs
\* is entered and awaits container.logs()
WsSetupStats(c) ==
  /\ sock[c].pc = "setupStats"
  /\ \E ok \in BOOLEAN :
       sock' = [sock EXCEPT ![c] =
                  IF ok /\ Exists(@.container)
                  THEN [Send(Send(@, Frame("stats", NULL)),
                             Frame("auth_success", NULL))
                          EXCEPT !.pc = "setupAttach"]
                  ELSE SetupFailed(@)]
  /\ UNCHANGED <<rec, containers, power, nreq, lifeVars, auxVars,
                 pw, retry, streams,
                 emitted, ring, cache, nmsg>>

\* ------------------------------------ WebSocketManager: log streams
FreeStreams == {x \in StreamIds : streams[x].owner = 0}
\* session.logStream.destroy(), when the session has a stream
Destroyed(st, x) == IF x = NoStream THEN st ELSE [st EXCEPT ![x].live = FALSE]
\* container.logs({follow: true, tail: 0}): a stream of the lines written
\* from now on, with its data and error handlers; on a container that does
\* not run the stream ends at once
Attached(st, x, c) ==
  [st EXCEPT ![x] = [owner |-> c, live |-> IsRunning(sock[c].container),
                     next |-> emitted + 1, half |-> FALSE]]
\* addLogToBuffer: a text the ring already holds is not appended
AddLog(r, log) ==
  IF \E i \in 1..Len(r) : r[i] = log THEN r
  ELSE IF Len(r) + 1 > MAX_LOGS THEN Tail(Append(r, log))
  ELSE Append(r, log)

\* setupContainerSession: attachLogs and startResourceMonitoring returned;
\* the handler clears the timeout and registers its listeners
WsSetupAttach(c) ==
  /\ sock[c].pc = "setupAttach"
  /\ \E ok \in BOOLEAN :
       IF ok /\ FreeStreams # {}
       THEN LET x == CHOOSE y \in FreeStreams : \A z \in FreeStreams : y <= z
            IN /\ streams' = Attached(streams, x, c)
               /\ sock' = [sock EXCEPT ![c] =
                             [ClearTimer(@) EXCEPT !.pc = "open",
                                                   !.sampler = TRUE,
                                                   !.logStream = x]]
               /\ retry' = retry
       ELSE /\ streams' = streams
            /\ sock' = [sock EXCEPT ![c] =
                          [ClearTimer(@) EXCEPT !.pc = "open",
                                                !.sampler = TRUE]]
            /\ retry' = [retry EXCEPT ![c] = @ \cup {"timer"}]
  /\ UNCHANGED <<rec, containers, power, nreq, lifeVars, auxVars,
                 pw, emitted, ring,
                 cache, nmsg>>

\* the socket's close event: the listeners exist once startResourceMonitoring
\* and the handler have registered them; they clear the sampler's interval,
\* destroy the stream, drop the session and the cache entry
WsCloseEvent(c) ==
  /\ sock[c].code # Open
  /\ ~sock[c].evt
  /\ IF sock[c].pc = "open"
     THEN /\ streams' = Destroyed(streams, sock[c].logStream)
          /\ sock' = [sock EXCEPT ![c].evt = TRUE, ![c].session = FALSE,
                                  ![c].sampler = FALSE]
          /\ cache' = [cache EXCEPT ![sock[c].token] = NoEntry]
     ELSE /\ sock' = [sock EXCEPT ![c].evt = TRUE]
          /\ UNCHANGED <<streams, cache>>
  /\ UNCHANGED <<rec, containers, power, nreq, lifeVars, auxVars,
                 pw, retry, emitted,
                 ring, nmsg>>

\* the running container writes a line, of some length
EngineEmit ==
  /\ emitted < MaxLines
  /\ \E k \in ContainerIds : IsRunning(k)
  /\ emitted' = emitted + 1
  /\ \E size \in PayloadSizes :
       big' = IF size > MAX_PAYLOAD_SIZE THEN big \cup {emitted + 1} ELSE big
  /\ UNCHANGED <<rec, containers, power, nreq, lifeVars, now, call,
                 sock, pw, retry,
                 streams, ring, cache, nmsg>>

\* the data handler of stream x gets a chunk: the rate limiter drops it, or
\* it holds the start of the next line (kept in the handler's buffer), or
\* it completes the line, which is added to the ring and sent if
\* validatePayloadSize accepts it and skipped otherwise
StreamData(x) ==
  /\ streams[x].live
  /\ streams[x].next <= emitted
  /\ \E kind \in {"drop", "half", "line"} :
       LET c == streams[x].owner
           text == LineText(streams[x].next) IN
       /\ kind \in {"drop", "half"} => ~streams[x].half
       /\ streams' = [streams EXCEPT ![x] =
                       IF kind = "half" THEN [@ EXCEPT !.half = TRUE]
                       ELSE [@ EXCEPT !.half = FALSE, !.next = @ + 1]]
       /\ IF kind = "line" /\ validatePayloadSize(LineSize(streams[x].next))
          THEN /\ ring' = AddLog(ring, text)
               /\ sock' = [sock EXCEPT ![c] =
                             Send(@, Frame("console_output", text))]
          ELSE UNCHANGED <<ring, sock>>
  /\ UNCHANGED <<rec, containers, power, nreq, lifeVars, auxVars,
                 pw, retry, emitted,
                 cache, nmsg>>

\* the error handler of stream x: attachLogs is to run again in 5 s
StreamError(x) ==
  /\ streams[x].live
  /\ streams' = [streams EXCEPT ![x].live = FALSE]
  /\ retry' = [retry EXCEPT ![streams[x].owner] = @ \cup {"timer"}]
  /\ UNCHANGED <<rec, containers, power, nreq, lifeVars, auxVars,
                 sock, pw, emitted,
                 ring, cache, nmsg>>

\* the 5 s timer: attachLogs(session) destroys session.logStream and awaits
\* container.logs()
RetryFire(c) ==
  /\ "timer" \in retry[c]
  /\ "attaching" \notin retry[c]
  /\ retry' = [retry EXCEPT ![c] = {"attaching"}]
  /\ streams' = Destroyed(streams, sock[c].logStream)
  /\ UNCHANGED <<rec, containers, power, nreq, lifeVars, auxVars,
                 sock, pw, emitted,
                 ring, cache, nmsg>>

RetryAttach(c) ==
  /\ "attaching" \in retry[c]
  /\ \E ok \in BOOLEAN :
       IF ok /\ FreeStreams # {}
       THEN LET x == CHOOSE y \in FreeStreams : \A z \in FreeStreams : y <= z
            IN /\ streams' = Attached(streams, x, c)
               /\ sock' = [sock EXCEPT ![c].logStream = x]
               /\ retry' = [retry EXCEPT ![c] = @ \ {"attaching"}]
       ELSE /\ streams' = streams
            /\ sock' = sock
            /\ retry' = [retry EXCEPT ![c] = (@ \ {"attaching"})
                                               \cup {"timer"}]
  /\ UNCHANGED <<rec, containers, power, nreq, lifeVars, auxVars,
                 pw, emitted, ring,
                 cache, nmsg>>

\* ------------------------- WebSocketManager: power_action messages
\* the daemon lines handlePowerAction broadcasts
PerformingText(a) ==
  CASE a = "start" -> "performing start"
    [] a = "stop" -> "performing stop"
    [] a = "restart" -> "performing restart"
    [] OTHER -> "performing kill"
FailedText(a) ==
  CASE a = "start" -> "failed start"
    [] a = "stop" -> "failed stop"
    [] a = "restart" -> "failed restart"
    [] OTHER -> "failed kill"
\* State.Status.replace('exited', 'stopped')
StateName(status) == IF status = "exited" THEN "stopped" ELSE status
\* the transitions handlePowerAction refuses
Illegal(action, state) ==
  \/ action = "start" /\ state = "running"
  \/ action \in {"stop", "kill"} /\ state = "stopped"
  \/ action = "restart" /\ state = "restarting"
WsStatusAfter(action) ==
  IF action \in {"start", "restart"} THEN "running" ELSE "exited"
\* a broadcast loop without the cap
RecipientsUncapped(sessions, internalId) ==
  {i \in DOMAIN sessions :
     /\ sessions[i].internalId = internalId
     /\ sessions[i].authenticated
     /\ sessions[i].open}
\* the loop of broadcastToServer over this.sessions, in insertion order:
\* the entries the frame is sent to; the loop breaks at the cap
Recipients(sessions, internalId) ==
  LET Eligible(i) == /\ sessions[i].internalId = internalId
                     /\ sessions[i].authenticated
                     /\ sessions[i].open
  IN {i \in DOMAIN sessions :
        /\ Eligible(i)
        /\ Cardinality({j \in 1..(i - 1) : Eligible(j)})
             < maxBroadcastsPerSecond}
\* this.sessions: the registered sessions (all of ServerId, in the order of
\* their connections)
Sessions(sks) ==
  SelectSeq([c \in Conns |->
               [conn |-> c, registered |-> sks[c].session,
                internalId |-> ServerId, authenticated |-> TRUE,
                open |-> sks[c].code = Open]],
            LAMBDA e : e.registered)
\* broadcastToServer: the frame goes to the recipients among the sessions
Broadcast(sks, text) ==
  LET to == {Sessions(sks)[i].conn :
               i \in Recipients(Sessions(sks), ServerId)}
  IN [c \in Conns |->
        IF c \in to THEN Send(sks[c], Frame("console_output", text))
        ELSE sks[c]]
\* a catch that only broadcasts the line
PowerFailedSilent(c) ==
  /\ ring' = AddLog(ring, FailedText(pw[c].action))
  /\ sock' = Broadcast(sock, FailedText(pw[c].action))
  /\ pw' = [pw EXCEPT ![c].pc = "done", ![c].reply = "error"]
\* the catch of handlePowerAction: a broadcast line and an error frame
PowerFailed(c) ==
  /\ ring' = AddLog(ring, FailedText(pw[c].action))
  /\ sock' = [Broadcast(sock, FailedText(pw[c].action)) EXCEPT ![c] =
                Send(@, Frame("error", FailedText(pw[c].action)))]
  /\ pw' = [pw EXCEPT ![c].pc = "done", ![c].reply = "error"]

\* on('message'): a message validatePayloadSize refuses or JSON.parse
\* cannot read throws, as does a power_action with an unknown action, and
\* the listener's catch answers with an error frame; otherwise the power
\* action is announced and the container inspected
WsPowerMessage(c) ==
  /\ sock[c].pc = "open"
  /\ sock[c].code = Open
  /\ pw[c].pc \in {"idle", "done"}
  /\ nreq + nmsg < MaxMessages
  /\ nmsg' = nmsg + 1
  /\ \E m \in WsPowerActions \cup {"bogus", "malformed"},
        size \in PayloadSizes :
       LET a == IF validatePayloadSize(size) THEN m ELSE "oversize" IN
       IF a \notin WsPowerActions
       THEN /\ pw' = [pw EXCEPT ![c] =
                       [IdlePw EXCEPT !.pc = "done", !.action = a,
                                      !.before = ring, !.reply = "error"]]
            /\ sock' = [sock EXCEPT ![c] =
                          Send(@, Frame("error", "Failed to process command"))]
            /\ ring' = ring
       ELSE /\ pw' = [pw EXCEPT ![c] =
                       [IdlePw EXCEPT !.pc = "inspect", !.action = a,
                                      !.before = ring]]
            /\ sock' = Broadcast(sock, PerformingText(a))
            /\ ring' = AddLog(ring, PerformingText(a))
  /\ UNCHANGED <<rec, containers, power, nreq, lifeVars, auxVars,
                 retry, streams,
                 emitted, cache>>

\* container.inspect() answered: an illegal transition throws, otherwise the
\* engine is asked to perform the action
WsPowerInspect(c) ==
  /\ pw[c].pc = "inspect"
  /\ \E ok \in BOOLEAN :
       IF /\ ok
          /\ Exists(sock[c].container)
          /\ ~Illegal(pw[c].action,
                      StateName(containers[sock[c].container].status))
       THEN /\ pw' = [pw EXCEPT ![c].pc = "act"]
            /\ UNCHANGED <<ring, sock>>
       ELSE PowerFailed(c)
  /\ UNCHANGED <<rec, containers, power, nreq, lifeVars, auxVars,
                 retry, streams,
                 emitted, cache, nmsg>>

\* container.start/stop/kill/restart answered; start and restart enter
\* attachLogs, stop and kill clear the ring and inspect
WsPowerAct(c) ==
  /\ pw[c].pc = "act"
  /\ \E ok \in BOOLEAN :
       IF ok /\ Exists(sock[c].container)
       THEN /\ containers' = WithStatus(sock[c].container,
                                        WsStatusAfter(pw[c].action))
            /\ IF pw[c].action \in {"start", "restart"}
               THEN /\ streams' =
                         Destroyed(StreamsAfter(streams, pw[c].action),
                                   sock[c].logStream)
                    /\ pw' = [pw EXCEPT ![c].pc = "attach",
                                        ![c].mark = emitted]
                    /\ ring' = ring
               ELSE /\ streams' = StreamsAfter(streams, pw[c].action)
                    /\ pw' = [pw EXCEPT ![c].pc = "inspect2"]
                    /\ ring' = <<>>
            /\ sock' = sock
       ELSE /\ PowerFailed(c)
            /\ UNCHANGED <<containers, streams>>
  /\ UNCHANGED <<rec, power, nreq, lifeVars, auxVars, retry, emitted, cache, nmsg>>

\* attachLogs returned (it catches its own errors); logBuffers.delete
WsPowerAttach(c) ==
  /\ pw[c].pc = "attach"
  /\ \E ok \in BOOLEAN :
       IF ok /\ FreeStreams # {}
       THEN LET x == CHOOSE y \in FreeStreams : \A z \in FreeStreams : y <= z
            IN /\ streams' = Attached(streams, x, c)
               /\ sock' = [sock EXCEPT ![c].logStream = x]
               /\ retry' = retry
       ELSE /\ streams' = streams
            /\ sock' = sock
            /\ retry' = [retry EXCEPT ![c] = @ \cup {"timer"}]
  /\ ring' = <<>>
  /\ pw' = [pw EXCEPT ![c].pc = "inspect2"]
  /\ UNCHANGED <<rec, containers, power, nreq, lifeVars, auxVars,
                 emitted, cache,
                 nmsg>>

\* the second container.inspect(); the power_status frame
WsPowerInspect2(c) ==
  /\ pw[c].pc = "inspect2"
  /\ \E ok \in BOOLEAN :
       IF ok /\ Exists(sock[c].container)
       THEN /\ sock' = [sock EXCEPT ![c] =
                          Send(@, Frame("power_status",
                            StateName(containers[sock[c].container].status)))]
            /\ pw' = [pw EXCEPT ![c].pc = "done",
                                ![c].reply = "power_status"]
            /\ ring' = ring
       ELSE PowerFailed(c)
  /\ UNCHANGED <<rec, containers, power, nreq, lifeVars, auxVars,
                 retry, streams,
                 emitted, cache, nmsg>>

\* ------------------------------------------------------------- Next
Requests ==
  \/ CreateRequest
  \/ PatchRequest
  \/ ReinstallRequest
  \/ DeleteRequest
  \/ PowerRequest

Steps ==
  \/ \E p \in Installers : InstallPrepare(p)
  \/ \E p \in Installers : InstallContainer(p)
  \/ \E p \in Installers : InstallWait(p)
  \/ \E p \in Installers : InstallCleanup(p)
  \/ \E p \in Installers : InstallCatch(p)
  \/ CreateFetchConfig
  \/ CreateInsert
  \/ CreateRespond
  \/ CreateGameContainer
  \/ CreateStart
  \/ CreateWriteRunning
  \/ CreateCatch
  \/ PatchRead
  \/ PatchSetUpdating
  \/ PatchConfig
  \/ PatchPull
  \/ PatchInspectOld
  \/ PatchStopOld
  \/ PatchRemoveOld
  \/ PatchCreateNew
  \/ PatchStartNew
  \/ PatchRecreateWrite
  \/ PatchStartAgain
  \/ PatchWrite
  \/ PatchRespond
  \/ PatchCatch
  \/ ReinstallFetch
  \/ ReinstallRead
  \/ ReinstallRemove
  \/ ReinstallSetInstalling
  \/ ReinstallWriteInstalled
  \/ ReinstallCatch
  \/ DeleteRead
  \/ DeleteRemove
  \/ DeleteVolume
  \/ DeleteRecord
  \/ PowerRead
  \/ PowerAct
  \/ PowerInspect
  \/ PowerWrite

\* requests arrive at any time
Next == Requests \/ Steps

Spec == Init /\ [][Next]_vars

\* one request at a time: a request arrives when every handler has finished
Quiet ==
  /\ Idle(create)
  /\ Idle(patch)
  /\ Idle(reinstall)
  /\ Idle(del)
  /\ Idle(power)

SeqNext == (Quiet /\ Requests) \/ Steps

SeqSpec == Init /\ [][SeqNext]_vars

\* POST /:id/power/:action while sockets are connected; socket and HTTP
\* commands share the bound MaxMessages
HttpPower ==
  /\ nreq + nmsg < MaxMessages
  /\ PowerRequest

\* the console: a server that exists (its container up or stopped, or a
\* reinstalled server without container), socket connections to it and the
\* HTTP power endpoint
WsServer ==
  /\ \/ \E st \in {"running", "exited"} :
          /\ rec = [exists |-> TRUE,
                    state |-> IF st = "running" THEN Running ELSE Stopped,
                    docker_id |-> 1, name |-> "n1", memory_limit |-> 1,
                    cpu_limit |-> 1, image |-> "img1", variables |-> "good"]
          /\ containers =
               [c \in ContainerIds |->
                  IF c = 1
                  THEN [status |-> st, image |-> "img1", label |-> ServerId]
                  ELSE AbsentContainer]
          /\ nextId = 2
     \/ /\ rec = [exists |-> TRUE, state |-> Installed,
                  docker_id |-> NoContainer, name |-> "n1",
                  memory_limit |-> 1, cpu_limit |-> 1, image |-> "img1",
                  variables |-> "good"]
        /\ containers = [c \in ContainerIds |-> AbsentContainer]
        /\ nextId = 1
  /\ volume = [dir |-> TRUE, workspace |-> FALSE, log |-> FALSE]
  /\ installer = NULL
  /\ create = IdleCreate
  /\ patch = IdlePatch
  /\ reinstall = IdleReinstall
  /\ del = IdleDelete
  /\ power = IdlePower
  /\ install = [p \in Installers |-> IdleInstall]
  /\ ops = [h \in Handlers |-> <<>>]
  /\ nreq = 0

WsInit == WsServer /\ WsIdle

\* the console is followed for the first connection
WsConns == {1}

\* a message event between auth_success (789-794) and socket.on('message')
\* (611): setupContainerSession still awaits attachLogs and
\* startResourceMonitoring, the socket has no message listener yet and the
\* event is emitted to nobody
WsMessageEarly(c) ==
  /\ sock[c].pc = "setupAttach"
  /\ sock[c].code = Open
  /\ nreq + nmsg < MaxMessages
  /\ nmsg' = nmsg + 1
  /\ UNCHANGED <<rec, containers, power, nreq, lifeVars, auxVars,
                 sock, pw, retry, streams, emitted, ring, cache>>

WsNext ==
  \/ \E c \in WsConns : WsConnect(c)
  \/ \E c \in WsConns : WsTimeout(c)
  \/ \E c \in WsConns : WsValidate(c)
  \/ \E c \in WsConns : WsSetupRead(c)
  \/ \E c \in WsConns : WsSetupInspect(c)
  \/ \E c \in WsConns : WsSetupStats(c)
  \/ \E c \in WsConns : WsSetupAttach(c)
  \/ \E c \in WsConns : WsCloseEvent(c)
  \/ EngineEmit
  \/ \E x \in StreamIds : StreamData(x)
  \/ \E x \in StreamIds : StreamError(x)
  \/ \E c \in WsConns : RetryFire(c)
  \/ \E c \in WsConns : RetryAttach(c)
  \/ \E c \in WsConns : WsMessageEarly(c)
  \/ \E c \in WsConns : WsPowerMessage(c)
  \/ \E c \in WsConns : WsPowerInspect(c)
  \/ \E c \in WsConns : WsPowerAct(c)
  \/ \E c \in WsConns : WsPowerAttach(c)
  \/ \E c \in WsConns : WsPowerInspect2(c)
  \/ HttpPower
  \/ PowerRead
  \/ PowerAct
  \/ PowerInspect
  \/ PowerWrite

WsSpec == WsInit /\ [][WsNext]_vars

\* ------------------- the installation of a new server and the clients
\* the daemon with no server yet: a server is created while a client
\* connects for it
NoticeInit == Init /\ ~rec.exists
NoticeNext ==
  \/ CreateRequest
  \/ CreateFetchConfig
  \/ CreateInsert
  \/ CreateRespond
  \/ InstallPrepare("create")
  \/ InstallContainer("create")
  \/ InstallWait("create")
  \/ InstallCleanup("create")
  \/ InstallCatch("create")
  \/ CreateGameContainer
  \/ CreateStart
  \/ CreateWriteRunning
  \/ CreateCatch
  \/ \E c \in WsConns : WsConnect(c)
  \/ \E c \in WsConns : WsTimeout(c)
  \/ \E c \in WsConns : WsValidate(c)
  \/ \E c \in WsConns : WsSetupRead(c)
  \/ \E c \in WsConns : WsSetupInspect(c)
  \/ \E c \in WsConns : WsSetupStats(c)
  \/ \E c \in WsConns : WsSetupAttach(c)
  \/ \E c \in WsConns : WsCloseEvent(c)

NoticeSpec == NoticeInit /\ [][NoticeNext]_vars

\* ------------------------------- WebSocketManager: authentication
NormalClosure == 1000
\* the client closes the socket, or the connection is lost
ClientClose(c) ==
  /\ sock[c].pc # "none"
  /\ sock[c].code = Open
  /\ sock' = [sock EXCEPT ![c].code = NormalClosure]
  /\ UNCHANGED <<rec, containers, power, nreq, lifeVars, auxVars, pw, retry,
                 streams, emitted, ring, cache, nmsg>>

\* time passes, in steps of half a CACHE_TTL
TimeStep == CACHE_TTL \div 2
Tick ==
  /\ now < MaxTicks * TimeStep
  /\ now' = now + TimeStep
  /\ UNCHANGED <<rec, containers, power, nreq, lifeVars, call, big, sock, pw,
                 retry, streams, emitted, ring, cache, nmsg>>

\* startCacheCleanup: the interval callback deletes the entries older than
\* CACHE_TTL
Expired(t) == cache[t] # NoEntry /\ now - cache[t].timestamp > CACHE_TTL
Sweep ==
  /\ \E t \in Tokens : Expired(t)
  /\ cache' = [t \in Tokens |-> IF Expired(t) THEN NoEntry ELSE cache[t]]
  /\ UNCHANGED <<rec, containers, power, nreq, lifeVars, auxVars, sock, pw,
                 retry, streams, emitted, ring, nmsg>>

\* a ring an earlier session left behind: one entry more than a new session
\* is sent. Connections are followed up to the registration of their
\* listeners; a socket can close at any moment (ClientClose), whether the
\* client, the network or the connection timeout closes it
OldRing == [i \in 1..(INITIAL_LOGS + 1) |-> ToString(i)]

AuthInit ==
  /\ WsServer
  /\ sock = [c \in Conns |-> IdleSock]
  /\ pw = [c \in Conns |-> IdlePw]
  /\ retry = [c \in Conns |-> {}]
  /\ streams = [x \in StreamIds |-> DeadStream]
  /\ emitted = 0
  /\ ring = IF rec.docker_id = NoContainer THEN <<>> ELSE OldRing
  /\ cache = [t \in Tokens |-> NoEntry]
  /\ nmsg = 0
  /\ now = 0
  /\ call = NoCall
  /\ big = {}

AuthNext ==
  \/ \E c \in Conns : WsConnect(c)
  \/ \E c \in Conns : WsValidate(c)
  \/ \E c \in Conns : WsSetupRead(c)
  \/ \E c \in Conns : WsSetupInspect(c)
  \/ \E c \in Conns : WsSetupStats(c)
  \/ \E c \in Conns : WsSetupAttach(c)
  \/ \E c \in Conns : WsCloseEvent(c)
  \/ \E c \in Conns : ClientClose(c)
  \/ Tick
  \/ Sweep

AuthSpec == AuthInit /\ [][AuthNext]_vars


\* ------------------------------------------- functions of the daemon
\* a function f of the daemon, to be applied to arg
Call(f, arg) == [f |-> f, arg |-> arg, res |-> NULL, done |-> FALSE]
Returned(res) == [call EXCEPT !.res = res, !.done = TRUE]

\* a ring that holds MAX_LOGS different lines
FullRing == [i \in 1..MAX_LOGS |-> ToString(i)]
LogLines == {"1", "x", "y"}
\* the rings and the lines appended to them, in order
AddLogArgs ==
  {[ring |-> r, logs |-> l] :
     r \in {<<>>, FullRing},
     l \in UNION {[1..n -> LogLines] : n \in 0..MaxAppends}}
\* addLogToBuffer called for each line in turn
RECURSIVE AddLogs(_, _)
AddLogs(r, logs) ==
  IF logs = <<>> THEN r ELSE AddLogs(AddLog(r, Head(logs)), Tail(logs))
ApplyAddLog ==
  /\ call.f = "addLogToBuffer" /\ ~call.done
  /\ call' = Returned(AddLogs(call.arg.ring, call.arg.logs))
  /\ UNCHANGED <<rec, containers, power, nreq, lifeVars, now, big, sock, pw,
                 retry, streams, emitted, ring, cache, nmsg>>

\* the frame parser of the data handler of attachLogs, on a chunk of bytes
\* (ASCII only, so that toString('utf8') keeps them); offsets count from 0
ReadUInt32BE(chunk, off) ==
  chunk[off + 1] * 16777216 + chunk[off + 2] * 65536
    + chunk[off + 3] * 256 + chunk[off + 4]
Slice(chunk, from, to) == SubSeq(chunk, from + 1, to)
IsValidHeader(chunk, off) ==
  LET size == ReadUInt32BE(chunk, off + 4) IN
  /\ chunk[off + 1] <= 2
  /\ chunk[off + 2] = 0 /\ chunk[off + 3] = 0 /\ chunk[off + 4] = 0
  /\ size > 0
  /\ size <= Len(chunk) - 8
  /\ off + 8 + size <= Len(chunk)
\* what the while loop appends to `buffer`
RECURSIVE ParseFrames(_, _)
ParseFrames(chunk, off) ==
  IF off >= Len(chunk) THEN <<>>
  ELSE IF off + 8 > Len(chunk) THEN Slice(chunk, off, Len(chunk))
  ELSE IF IsValidHeader(chunk, off)
  THEN LET end == off + 8 + ReadUInt32BE(chunk, off + 4) IN
       Slice(chunk, off + 8, end) \o ParseFrames(chunk, end)
  ELSE Slice(chunk, off, Len(chunk))

\* a record as the engine frames it: stream type, three zero bytes, the
\* payload length as big-endian uint32, the payload
Framed(type, payload) ==
  <<type, 0, 0, 0, 0, 0, 0, Len(payload)>> \o payload
RECURSIVE Concat(_)
Concat(ss) == IF ss = <<>> THEN <<>> ELSE Head(ss) \o Concat(Tail(ss))
Payloads == {<<>>, <<65>>, <<66, 10>>}
FramedRecords == {[type |-> t, payload |-> p] : t \in {1, 2}, p \in Payloads}
\* chunks of correctly framed records, and chunks whose first header is
\* invalid: too short, plain text, bad type, bad padding, length beyond
\* the chunk
ParseArgs ==
  {[framed |-> TRUE,
    payloads |-> [i \in DOMAIN rs |-> rs[i].payload],
    chunk |-> Concat([i \in DOMAIN rs |->
                        Framed(rs[i].type, rs[i].payload)])] :
     rs \in UNION {[1..n -> FramedRecords] : n \in 0..MaxRecords}}
  \cup
  {[framed |-> FALSE, payloads |-> <<>>, chunk |-> c] :
     c \in {<<65, 66, 10>>,
            <<65, 66, 67, 68, 69, 70, 71, 72, 10>>,
            <<3, 0, 0, 0, 0, 0, 0, 1, 65>>,
            <<1, 0, 1, 0, 0, 0, 0, 1, 65>>,
            <<1, 0, 0, 0, 0, 0, 0, 5, 65>>}}
ApplyParse ==
  /\ call.f = "parseFrames" /\ ~call.done
  /\ call' = Returned(ParseFrames(call.arg.chunk, 0))
  /\ UNCHANGED <<rec, containers, power, nreq, lifeVars, now, big, sock, pw,
                 retry, streams, emitted, ring, cache, nmsg>>

\* processVariables, on strings as sequences of characters
ToLowerCase(ch) ==
  CASE ch = "A" -> "a" [] ch = "B" -> "b" [] OTHER -> ch
\* `%${variable.name.toLowerCase().replace(/ /g, "_")}%`
Placeholder(name) ==
  <<"%">> \o [i \in DOMAIN name |->
               IF name[i] = " " THEN "_" ELSE ToLowerCase(name[i])]
        \o <<"%">>
\* variable.currentValue ?? variable.defaultValue
ValueOf(variable) ==
  IF variable.currentValue # Undefined THEN variable.currentValue
  ELSE variable.defaultValue
\* String.prototype.replace with a string pattern: the first occurrence
Occurrences(str, pat) ==
  {i \in 1..(Len(str) - Len(pat) + 1) :
     SubSeq(str, i, i + Len(pat) - 1) = pat}
StringReplace(str, pat, value) ==
  IF Occurrences(str, pat) = {} THEN str
  ELSE LET i == CHOOSE j \in Occurrences(str, pat) :
                  \A k \in Occurrences(str, pat) : j <= k
       IN SubSeq(str, 1, i - 1) \o value
            \o SubSeq(str, i + Len(pat), Len(str))
\* the loop over the variables (their values pass validateVariableValue)
RECURSIVE processVariables(_, _)
processVariables(input, variables) ==
  IF variables = <<>> THEN input
  ELSE processVariables(
         StringReplace(input, Placeholder(Head(variables).name),
                       ValueOf(Head(variables))),
         Tail(variables))

VarA == [name |-> <<"A">>, currentValue |-> <<"1">>, defaultValue |-> <<"0">>]
VarB ==
  [name |-> <<"B", " ">>, currentValue |-> Undefined, defaultValue |-> <<"2">>]
\* the pieces the templated strings are made of: the placeholders of VarA
\* and VarB, a placeholder of no variable, plain text
Pieces == {<<"%", "a", "%">>, <<"%", "b", "_", "%">>, <<"%", "z", "%">>, <<"x">>}
TemplateArgs ==
  {[pieces |-> ps, input |-> Concat(ps), variables |-> vs] :
     ps \in UNION {[1..n -> Pieces] : n \in 0..MaxPieces},
     vs \in {<<VarA>>, <<VarA, VarB>>, <<VarB, VarA>>}}
ApplyTemplate ==
  /\ call.f = "processVariables" /\ ~call.done
  /\ call' = Returned(processVariables(call.arg.input, call.arg.variables))
  /\ UNCHANGED <<rec, containers, power, nreq, lifeVars, now, big, sock, pw,
                 retry, streams, emitted, ring, cache, nmsg>>

\* variable.currentValue || variable.defaultValue: undefined and the empty
\* string are falsy
ValueOrDefault(variable) ==
  IF variable.currentValue # Undefined /\ variable.currentValue # <<>>
  THEN variable.currentValue
  ELSE variable.defaultValue
\* createGameContainer: `${variable.name}=${currentValue || defaultValue}`
EnvironmentEntry(variable) ==
  variable.name \o <<"=">> \o ValueOrDefault(variable)
\* writeInstallationScript: `export ${v.name}="${currentValue || defaultValue}"`
ExportLine(v) ==
  <<"export ">> \o v.name \o <<"=", "\"">> \o ValueOrDefault(v) \o <<"\"">>
\* variables whose currentValue is absent, empty or set, over each default
ValueArgs ==
  {[name |-> <<"A">>, currentValue |-> cur, defaultValue |-> def] :
     cur \in {Undefined, <<>>, <<"1">>, <<"1", "2">>},
     def \in {<<>>, <<"0">>, <<"0", "3">>}}
\* one variable through the three places that read it: the startup command
\* %name% templated by processVariables, the runtime container's
\* environment and the install script
ApplyVariable ==
  /\ call.f = "variableValue" /\ ~call.done
  /\ call' = Returned(
       [startup |-> processVariables(Placeholder(call.arg.name),
                                     <<call.arg>>),
        env |-> EnvironmentEntry(call.arg),
        script |-> ExportLine(call.arg)])
  /\ UNCHANGED <<rec, containers, power, nreq, lifeVars, now, big, sock, pw,
                 retry, streams, emitted, ring, cache, nmsg>>

\* session maps for broadcastToServer(ServerId, ...): up to MaxSessions
\* entries, all open sessions of ServerId but at most one, which is a
\* session of another server or one whose socket is closed
SessionEntry(kind) ==
  [internalId |-> IF kind = "other" THEN OtherId ELSE ServerId,
   authenticated |-> TRUE, open |-> kind # "closed"]
BroadcastArgs ==
  {[i \in 1..n |-> SessionEntry(IF i = d THEN kind ELSE "mine")] :
     n \in 0..MaxSessions, d \in 0..MaxSessions, kind \in {"other", "closed"}}
ApplyBroadcast ==
  /\ call.f = "broadcastToServer" /\ ~call.done
  /\ call' = Returned(Recipients(call.arg, ServerId))
  /\ UNCHANGED <<rec, containers, power, nreq, lifeVars, now, big, sock, pw,
                 retry, streams, emitted, ring, cache, nmsg>>

\* fetchServerConfig: the panel's answers to the attempts, each a status or
\* no response at all; the body of answer i is config i
maxRetries == 3
Transport == 0
Answers == {200, 201, 500, Transport}
FetchArgs == [1..maxRetries -> Answers]
\* axios rejects when there is no response or validateStatus refuses it
AxiosThrows(a) == a = Transport \/ a < 200 \/ a >= 300
\* the loop at its first attempt
FetchStart ==
  [pc |-> "get", attempt |-> 1, slept |-> <<>>, value |-> 0, error |-> FALSE]
\* the loop has run out: throw new Error(...)
FetchAfter(r) ==
  IF r.attempt > maxRetries
  THEN [r EXCEPT !.pc = "thrown", !.error = TRUE]
  ELSE r
\* axios.get answered attempt r.attempt
FetchGet ==
  /\ call.f = "fetchServerConfig" /\ ~call.done
  /\ call.res.pc = "get"
  /\ LET r == call.res
         a == call.arg[r.attempt]
         next == IF a = 200
                 THEN [r EXCEPT !.pc = "returned", !.value = r.attempt]
                 ELSE IF ~AxiosThrows(a) \/ r.attempt >= maxRetries
                 THEN FetchAfter([r EXCEPT !.attempt = @ + 1])
                 ELSE [r EXCEPT !.pc = "sleep"]
     IN call' = [call EXCEPT !.res = next, !.done = next.pc # "get"
                                                     /\ next.pc # "sleep"]
  /\ UNCHANGED <<rec, containers, power, nreq, lifeVars, now, big, sock, pw,
                 retry, streams, emitted, ring, cache, nmsg>>
\* the timer of 1000 * attempt ms has fired
FetchWake ==
  /\ call.f = "fetchServerConfig" /\ ~call.done
  /\ call.res.pc = "sleep"
  /\ call' = [call EXCEPT !.res =
                [@ EXCEPT !.pc = "get", !.attempt = @ + 1,
                          !.slept = Append(@, 1000 * call.res.attempt)]]
  /\ UNCHANGED <<rec, containers, power, nreq, lifeVars, now, big, sock, pw,
                 retry, streams, emitted, ring, cache, nmsg>>
\* the rate limiter at the head of the data handler of attachLogs, for a
\* stream attached at time 0: lastLogTime and logCount after the chunks
\* arriving at the given times, and which of them went on to be processed
LogWindow == 100
LogLimit == 10
LimiterStart == [lastLogTime |-> 0, logCount |-> 0, passed |-> <<>>]
\* one chunk arriving at time t
Limited(l, t) ==
  IF t - l.lastLogTime < LogWindow
  THEN [l EXCEPT !.logCount = @ + 1,
                 !.passed = Append(@, ~(l.logCount + 1 > LogLimit))]
  ELSE [l EXCEPT !.lastLogTime = t, !.logCount = 0,
                 !.passed = Append(@, TRUE)]
RECURSIVE LimitAll(_, _)
LimitAll(l, times) ==
  IF times = <<>> THEN l ELSE LimitAll(Limited(l, Head(times)), Tail(times))
\* a burst of chunks at one instant, then possibly one more chunk later
BurstTimes(first, burst, gap) ==
  [i \in 1..burst |-> first] \o (IF gap = 0 THEN <<>> ELSE <<first + gap>>)
LimiterArgs ==
  {BurstTimes(first, burst, gap) :
     first \in {0, LogWindow - 1, LogWindow},
     burst \in 0..MaxBurst,
     gap \in {0, LogWindow - 1, LogWindow}}
ApplyLimiter ==
  /\ call.f = "rateLimit" /\ ~call.done
  /\ call' = Returned(LimitAll(LimiterStart, call.arg).passed)
  /\ UNCHANGED <<rec, containers, power, nreq, lifeVars, now, big, sock, pw,
                 retry, streams, emitted, ring, cache, nmsg>>

FetchCalls ==
  {[f |-> "fetchServerConfig", arg |-> a, res |-> FetchStart, done |-> FALSE] :
     a \in FetchArgs}

PureCalls ==
  {Call("addLogToBuffer", a) : a \in AddLogArgs}
    \cup {Call("parseFrames", a) : a \in ParseArgs}
    \cup {Call("processVariables", a) : a \in TemplateArgs}
    \cup {Call("broadcastToServer", a) : a \in BroadcastArgs}
    \cup FetchCalls
    \cup {Call("rateLimit", a) : a \in LimiterArgs}
    \cup {Call("variableValue", a) : a \in ValueArgs}

\* the daemon with no server and no connection, about to apply a function
PureInit ==
  /\ rec = NoRecord
  /\ containers = [c \in ContainerIds |-> AbsentContainer]
  /\ nextId = 1
  /\ volume = NoVolume
  /\ installer = NULL
  /\ create = IdleCreate
  /\ patch = IdlePatch
  /\ reinstall = IdleReinstall
  /\ del = IdleDelete
  /\ power = IdlePower
  /\ install = [p \in Installers |-> IdleInstall]
  /\ ops = [h \in Handlers |-> <<>>]
  /\ nreq = 0
  /\ sock = [c \in Conns |-> IdleSock]
  /\ pw = [c \in Conns |-> IdlePw]
  /\ retry = [c \in Conns |-> {}]
  /\ streams = [x \in StreamIds |-> DeadStream]
  /\ emitted = 0
  /\ ring = <<>>
  /\ cache = [t \in Tokens |-> NoEntry]
  /\ nmsg = 0
  /\ now = 0
  /\ call \in PureCalls
  /\ big = {}

PureNext ==
  \/ ApplyAddLog
  \/ ApplyParse
  \/ ApplyTemplate
  \/ ApplyBroadcast
  \/ FetchGet
  \/ FetchWake
  \/ ApplyLimiter
  \/ ApplyVariable

PureSpec == PureInit /\ [][PureNext]_vars

\* ------------------------------------------------------------ properties
IsPrefix(s, t) == Len(s) <= Len(t) /\ \A i \in 1..Len(s) : s[i] = t[i]
Contains(s, x) == \E i \in 1..Len(s) : s[i] = x
HandlerOf(p) == IF p = "create" THEN create ELSE reinstall
EngineOps == {"pull", "installerCreate", "createContainer", "start"}

\* C1: a record whose state is running has a non-null containerId that
\* names a container existing in the engine, in every reachable state.
RunningHasContainer ==
  (rec.exists /\ rec.state = Running)
    => (rec.docker_id # NoContainer /\ Exists(rec.docker_id))

\* no handler is at work and the record says running with no containerId
RunningWithoutContainer ==
  /\ Quiet
  /\ rec.exists /\ rec.state = Running
  /\ rec.docker_id = NoContainer

\* C2: a record whose state is updating, stopped or stopping has a non-null
\* containerId naming an existing container that carries the server id label.
UpdatingHasContainer ==
  (rec.exists /\ rec.state \in {Updating, Stopped, Stopping})
    => /\ rec.docker_id # NoContainer
       /\ Exists(rec.docker_id)
       /\ containers[rec.docker_id].label = ServerId

\* C3: update, reinstall and delete of one server id are mutually exclusive:
\* at most one of them is between its first read of the record and its last
\* write of the record or of a container.
PatchActive == patch.pc \notin {"idle", "read", "done"}
ReinstallActive == reinstall.pc \notin {"idle", "fetch", "read", "done"}
DeleteActive == del.pc \notin {"idle", "read", "done"}
LifecycleExclusive ==
  /\ ~(PatchActive /\ ReinstallActive)
  /\ ~(PatchActive /\ DeleteActive)
  /\ ~(ReinstallActive /\ DeleteActive)

\* the operations of create, without the closing install_failed of its catch
CreateSteps ==
  LET o == ops["create"] IN
  IF o # <<>> /\ o[Len(o)] = "install_failed" THEN SubSeq(o, 1, Len(o) - 1)
  ELSE o

\* C4 as the spec states it: 201 is sent before any work, then fetchConfig,
\* state = installing, the installer, the runtime container, its start,
\* state = running.
SpecOrder ==
  <<"respond201", "fetchConfig", "installing", "runInstall", "pull",
    "installerCreate", "wait", "createContainer", "start", "running">>
CreateRespondsFirst == IsPrefix(CreateSteps, SpecOrder)

\* C4 (amended): create fetches the panel config and inserts the record with
\* state installing, then responds 201 before any installer work; the steps
\* after it are the installer, the runtime container, its start and
\* state = running, in this order; the write that ends a create sets state
\* running and containerId to the container create made.
CodeOrder ==
  <<"fetchConfig", "installing", "respond201", "runInstall", "pull",
    "installerCreate", "wait", "createContainer", "start", "running">>
CreateOrder ==
  /\ [](IsPrefix(CreateSteps, CodeOrder))
  /\ [][(create.pc = "write" /\ create'.pc = "done" /\ rec.exists)
          => /\ rec'.state = Running
             /\ rec'.docker_id = create.dockerId
             /\ create.dockerId # NoContainer]_vars
CreateOrderWitness ==
  /\ create.pc = "done"
  /\ ops["create"] = CodeOrder
  /\ ~create.startFailed
  /\ rec.exists /\ rec.state = Running /\ rec.docker_id = create.dockerId
  /\ IsRunning(create.dockerId)

\* C5: every terminal failure of create (config fetch, installer, runtime
\* container creation or start) ends with the record present and in state
\* install_failed.
CreateFailed(c) == c.error # NULL \/ c.startFailed
CreateFailureEndsInstallFailed ==
  [][(create.pc # "done" /\ create'.pc = "done" /\ CreateFailed(create'))
       => (rec'.exists /\ rec'.state = InstallFailed)]_vars

\* create ended after container.start() was rejected: the record says running
StartFailureLeavesRunning ==
  /\ create.pc = "done"
  /\ create.startFailed
  /\ rec.exists /\ rec.state = Running
  /\ ~IsRunning(create.dockerId)

\* C6: when the installer container exits with a non-zero code, the request
\* that ran it ends with the record in install_failed, installation.log
\* written in the volume root, the .installation workspace kept and no
\* runtime container created.
InstallerExitHandled ==
  [][\A p \in Installers :
       (/\ HandlerOf(p).pc # "done"
        /\ HandlerOf(p)'.pc = "done"
        /\ install'[p].exitCode \notin {NoExit, 0})
         => /\ rec'.exists
            /\ rec'.state = InstallFailed
            /\ volume'.log
            /\ volume'.workspace
            /\ ~Contains(ops'[p], "createContainer")
            /\ containers' = containers]_vars
InstallerExitWitness ==
  \E p \in Installers :
    /\ HandlerOf(p).pc = "done"
    /\ install[p].exitCode = 2
    /\ rec.exists /\ rec.state = InstallFailed
    /\ volume.log /\ volume.workspace

\* C7: when a variable's value violates its rules, create fails with the
\* rule violation before any container-engine operation was performed.
RuleViolationBeforeEngine ==
  create.error = "VariableRuleViolation"
    => \A i \in 1..Len(ops["create"]) : ops["create"][i] \notin EngineOps

\* C8: PATCH moves a record to updating only from running or stopped; for a
\* record in any other state it does not write updating and does not stop,
\* remove or create a container.
PatchGated ==
  /\ [][(patch.pc = "setUpdating" /\ patch'.pc # "setUpdating"
          /\ rec.exists /\ rec.state \notin {Running, Stopped})
         => rec'.state # Updating]_vars
  /\ []((patch.was \notin {NULL, Running, Stopped})
         => \A i \in 1..Len(ops["patch"]) :
              ops["patch"][i] \notin {"stop", "remove", "createContainer"})

\* C9: an update whose every step succeeds ends with the record holding
\* state running, the new container's id, and the new name, memory limit,
\* CPU limit and image (the image the new container runs), and answers 200.
UpdateSuccessRecord ==
  [][(patch.pc = "respond" /\ patch'.pc = "done")
       => /\ patch'.status = 200
          /\ rec'.exists
          /\ rec'.state = Running
          /\ rec'.docker_id = patch.newId
          /\ rec'.name = patch.req.name
          /\ rec'.memory_limit = patch.req.memoryLimit
          /\ rec'.cpu_limit = patch.req.cpuLimit
          /\ rec'.image = containers'[patch.newId].image]_vars

\* C10: in an update with unitChanged and a dockerImage the image is pulled
\* before the existing container is inspected, stopped or removed; when the
\* pull fails, no step of the update touches a container or the containerId.
TouchOps == {"inspect", "stop", "remove", "createContainer", "start"}
PullFirst ==
  /\ [](PullsImage(patch.req)
         => \A i \in 1..Len(ops["patch"]) :
              ops["patch"][i] \in TouchOps
                => \E j \in 1..(i - 1) : ops["patch"][j] = "pull")
  /\ []((patch.error = "ImagePullFailed")
         => \A i \in 1..Len(ops["patch"]) : ops["patch"][i] \notin TouchOps)
  /\ [][(patch'.error = "ImagePullFailed" /\ patch' # patch)
         => (containers' = containers /\ rec'.docker_id = rec.docker_id)]_vars
PullFailedWitness ==
  /\ patch.pc = "done"
  /\ patch.error = "ImagePullFailed"
  /\ patch.server.docker_id # NoContainer
  /\ IsRunning(patch.server.docker_id)
  /\ rec.exists /\ rec.state = UpdateFailed
  /\ rec.docker_id = patch.server.docker_id

\* C11: an update that fails after the record was found ends with the record
\* in update_failed and the answer 500; the failure path changes no
\* container and the update has created at most one container (the new
\* one): a removed container is not restored.
UpdateFailureEndsUpdateFailed ==
  [][(patch.pc = "catch" /\ patch'.pc = "done")
       => /\ patch'.status = 500
          /\ rec'.exists
          /\ rec'.state = UpdateFailed
          /\ containers' = containers
          /\ Cardinality({i \in 1..Len(ops["patch"]) :
                            ops["patch"][i] = "createContainer"}) <= 1]_vars
UpdateFailedWitness ==
  /\ patch.pc = "done"
  /\ patch.error = "ContainerStartFailed"
  /\ patch.server.docker_id # NoContainer
  /\ ~Exists(patch.server.docker_id)
  /\ Contains(ops["patch"], "remove")
  /\ rec.exists /\ rec.state = UpdateFailed

\* C12: reinstall removes the current runtime container (when the row names
\* one), then writes state installing and containerId NULL, and only then
\* runs the installer; it ends with state installed and 200 when the
\* installer succeeded, with install_failed and 500 when it failed.
InstallerOps == {"runInstall", "pull", "installerCreate", "wait"}
ReinstallOrder ==
  /\ [](\A i \in 1..Len(ops["reinstall"]) :
         LET o == ops["reinstall"] IN
         /\ o[i] \in InstallerOps
              => \E j \in 1..(i - 1) : o[j] = "installing"
         /\ (o[i] = "installing" /\ reinstall.docker_id # NoContainer)
              => \E j \in 1..(i - 1) : o[j] = "remove")
  /\ [][(reinstall.pc = "setInstalling" /\ reinstall'.pc = "install")
         => /\ rec'.exists
            /\ rec'.state = Installing
            /\ rec'.docker_id = NoContainer
            /\ install["reinstall"].pc = "off"]_vars
  /\ [][(reinstall.pc = "install" /\ reinstall'.pc = "done")
         => /\ rec'.exists
            /\ rec'.docker_id = NoContainer
            /\ IF install["reinstall"].pc = "ok"
               THEN rec'.state = Installed /\ reinstall'.status = 200
               ELSE rec'.state = InstallFailed /\ reinstall'.status = 500]_vars
ReinstallOrderWitness ==
  /\ reinstall.pc = "done"
  /\ reinstall.status = 200
  /\ reinstall.docker_id # NoContainer
  /\ ~Exists(reinstall.docker_id)
  /\ ops["reinstall"] = <<"fetchConfig", "remove", "installing", "runInstall",
                          "pull", "installerCreate", "wait", "installed">>
  /\ rec.exists /\ rec.state = Installed /\ rec.docker_id = NoContainer

\* C13: after a successful reinstall (state installed, containerId NULL) a
\* start or restart power action brings up a runtime container: when the
\* request ends, the record names a container and that container runs.
PowerBringsUpAfterReinstall ==
  [][(/\ power.pc # "done" /\ power'.pc = "done"
      /\ power.action \in {"start", "restart"}
      /\ rec.exists /\ rec.state = Installed /\ rec.docker_id = NoContainer)
       => /\ rec'.docker_id \in ContainerIds
          /\ containers'[rec'.docker_id].status = "running"]_vars
\* the power request after a reinstall was answered 404 and nothing changed
PowerAfterReinstallNotFound ==
  /\ power.pc = "done" /\ power.action = "start" /\ power.status = 404
  /\ reinstall.pc = "done" /\ reinstall.status = 200
  /\ rec.exists /\ rec.state = Installed /\ rec.docker_id = NoContainer
  /\ \A c \in ContainerIds : ~Exists(c)

\* C14: a DELETE of an existing server goes on to remove the volume and the
\* record and answers 204, whether or not the container removal succeeded;
\* a DELETE that finds no record answers 404 and changes nothing; no DELETE
\* answers 500.
DeleteIdempotent ==
  /\ [][(del.pc = "read" /\ del'.pc # "read")
         => IF rec.exists
            THEN del'.pc # "done"
            ELSE /\ del'.pc = "done" /\ del'.status = 404
                 /\ UNCHANGED <<rec, containers, volume>>]_vars
  /\ [][(del.pc \notin {"read", "done"} /\ del'.pc = "done")
         => /\ del'.status = 204
            /\ ~rec'.exists
            /\ volume' = NoVolume]_vars
  /\ [](del.status \in {0, 204, 404})
\* two DELETEs of the server that existed at the start: the first could not
\* remove the container and still removed the record, the second got 404
DeleteTwiceWitness ==
  /\ del.pc = "done" /\ del.status = 404
  /\ nreq = 2
  /\ create.pc = "idle" /\ patch.pc = "idle" /\ reinstall.pc = "idle"
  /\ power.pc = "idle"
  /\ Exists(1)
  /\ ~rec.exists /\ volume = NoVolume

\* C15: a power action that is illegal in the container's current state
\* (start when running, stop or kill when stopped, restart when restarting)
\* invokes no container operation and fails with an error, on the socket
\* (the step that leaves "inspect") and on the HTTP endpoint (the step that
\* leaves "read").
IllegalPowerRefused ==
  /\ [][\A c \in Conns :
         (/\ pw[c].pc = "inspect" /\ pw'[c].pc # "inspect"
          /\ Exists(sock[c].container)
          /\ Illegal(pw[c].action,
                     StateName(containers[sock[c].container].status)))
           => pw'[c].pc = "done" /\ pw'[c].reply = "error"]_vars
  /\ [][(/\ power.pc = "read" /\ power'.pc # "read"
         /\ rec.exists /\ Exists(rec.docker_id)
         /\ Illegal(power.action,
                    StateName(containers[rec.docker_id].status)))
          => /\ power'.pc = "done"
             /\ power'.status \notin {0, 200}]_vars
\* POST /power/start for the running container was passed to the engine
HttpStartWhileRunning ==
  /\ power.pc = "inspect" /\ power.action = "start"
  /\ nreq = 1 /\ nmsg = 0
  /\ rec.state = Running /\ IsRunning(rec.docker_id)

\* C16: every power action on a socket clears the server's log ring: when
\* the reply (power_status or error) is sent, the ring holds no entry that
\* it held when the action was received.
PowerClearsRing ==
  [][\A c \in Conns :
       (/\ pw[c].pc # "done" /\ pw'[c].pc = "done"
        /\ pw'[c].action \in WsPowerActions)
         => \A i \in 1..Len(ring') : ~Contains(pw'[c].before, ring'[i])]_vars
\* a stop answered with an error: the ring still starts with what it held
\* when the action came in, followed by the lines of the failed action
ErrorReplyKeepsRing ==
  /\ pw[1].pc = "done" /\ pw[1].reply = "error" /\ pw[1].action = "stop"
  /\ pw[1].before # <<>>
  /\ IsPrefix(pw[1].before, ring)
  /\ Contains(ring, FailedText("stop"))

\* the frame carries a line the container wrote after line number n
NewOutput(frame, n) ==
  /\ frame.ev = "console_output"
  /\ \E i \in (n + 1)..emitted : frame.msg = LineText(i)

\* C17: for a start or restart on a session, no console_output frame with
\* output of the newly started instance is sent to the session before the
\* power_status frame: while the reply is pending the session has received
\* none.
PowerReplyBeforeOutput ==
  \A c \in Conns :
    (pw[c].pc \in {"attach", "inspect2"}
     /\ pw[c].action \in {"start", "restart"})
      => \A j \in 1..Len(sock[c].frames) :
           ~NewOutput(sock[c].frames[j], pw[c].mark)
\* the session got a line of the started instance, then the power_status
OutputBeforePowerStatus ==
  /\ pw[1].pc = "done" /\ pw[1].reply = "power_status"
  /\ pw[1].action = "start"
  /\ \E j, k \in 1..Len(sock[1].frames) :
       /\ j < k
       /\ NewOutput(sock[1].frames[j], pw[1].mark)
       /\ sock[1].frames[k].ev = "power_status"

\* the console_output frames of a session that carry container lines, as
\* the numbers of the lines
IsLine(frame) ==
  frame.ev = "console_output" /\ \E i \in 1..emitted : frame.msg = LineText(i)
LineNo(frame) == CHOOSE i \in 1..emitted : frame.msg = LineText(i)

\* C18: the console_output frames a session receives for container lines
\* are in the order the engine emitted the lines, also across
\* re-attachments of the log stream: no line is sent after a later one.
LinesInEngineOrder ==
  \A c \in Conns : \A j, k \in 1..Len(sock[c].frames) :
    (j < k /\ IsLine(sock[c].frames[j]) /\ IsLine(sock[c].frames[k]))
      => LineNo(sock[c].frames[j]) <= LineNo(sock[c].frames[k])
\* two attachLogs calls overlapped and left two live streams on the session:
\* it got the second line and then the first one again
LineAfterLaterLine ==
  /\ Cardinality({x \in StreamIds :
                    streams[x].owner = 1 /\ streams[x].live}) = 2
  /\ \E j, k \in 1..Len(sock[1].frames) :
       /\ j < k
       /\ sock[1].frames[j] = Frame("console_output", LineText(2))
       /\ sock[1].frames[k] = Frame("console_output", LineText(1))

AuthSent(c) ==
  \E j \in 1..Len(sock[c].frames) : sock[c].frames[j].ev = "auth_success"

\* C19: the 5 s deadline closes a connection that is still open with 1013,
\* and a connection that was sent auth_success is never closed with 1013.
DeadlineOnlyUnauthenticated ==
  \A c \in Conns :
    /\ sock[c].timer = "fired" => sock[c].code # Open
    /\ sock[c].code = TryAgainLater => ~AuthSent(c)
\* the deadline passed after auth_success, while attachLogs was awaited and
\* the timeout not yet cleared
AuthenticatedThenTimedOut ==
  /\ sock[1].code = TryAgainLater /\ sock[1].timer = "fired"
  /\ sock[1].session
  /\ AuthSent(1)

\* the connection handler returned before setupContainerSession
Rejected(c) == sock[c].pc \in {"none", "validate"} /\ sock'[c].pc = "end"

\* C20 as claimed: a connection whose id or token is missing, or whose
\* validation answers validated=false or fails in transport, is closed with
\* code 1008.
RejectedWith1008 ==
  [][\A c \in Conns : Rejected(c) => sock'[c].code = PolicyViolation]_vars

\* C20: such a connection is closed with 1008, unless the 5 s deadline has
\* already closed it with 1013 while the validation was awaited; no session
\* is registered for it, it is never sent auth_success, and at most one
\* validation call was made for it (none for a missing id or token).
RejectedConnection ==
  /\ [][\A c \in Conns : Rejected(c) =>
          /\ sock'[c].code \in {PolicyViolation, TryAgainLater}
          /\ sock'[c].code = TryAgainLater =>
                sock[c].pc = "validate" /\ sock[c].timer = "fired"
          /\ sock[c].pc = "none" => sock'[c].calls = 0
          /\ sock'[c].calls <= 1
          /\ ~sock'[c].session
          /\ ~AuthSent(c)']_vars
  /\ [][\A c \in Conns : sock[c].pc = "end" =>
          /\ sock'[c].pc = "end"
          /\ sock'[c].code = sock[c].code
          /\ sock'[c].calls = sock[c].calls
          /\ sock'[c].session = sock[c].session
          /\ sock'[c].frames = sock[c].frames]_vars
\* the one validation call failed in transport (nothing cached): closed
\* with 1008, timeout cleared, no session, no frame
TransportFailureClosed ==
  /\ sock[1].pc = "end" /\ sock[1].code = PolicyViolation
  /\ sock[1].calls = 1 /\ cache = [t \in Tokens |-> NoEntry]
  /\ sock[1].timer = "cleared"
  /\ ~sock[1].session /\ sock[1].frames = <<>>

\* a sequence without its exact adjacent repeats
RECURSIVE AdjacentDedup(_)
AdjacentDedup(s) ==
  IF Len(s) <= 1 THEN s
  ELSE IF s[1] = s[2] THEN AdjacentDedup(Tail(s))
  ELSE <<s[1]>> \o AdjacentDedup(Tail(s))
LastN(s, n) == IF Len(s) <= n THEN s ELSE SubSeq(s, Len(s) - n + 1, Len(s))

\* C28: after any sequence of appends the ring holds at most 100 entries,
\* no two adjacent entries are equal, and its content is the most recent (up
\* to 100) appended lines in append order with only exact adjacent repeats
\* removed.
RingKeepsRecentLines ==
  (call.f = "addLogToBuffer" /\ call.done) =>
    /\ Len(call.res) <= MAX_LOGS
    /\ \A i \in 1..(Len(call.res) - 1) : call.res[i] # call.res[i + 1]
    /\ call.res =
         LastN(AdjacentDedup(call.arg.ring \o call.arg.logs), MAX_LOGS)
\* x, y, x appended to an empty ring: the second x was not appended
RepeatAfterOtherLineDropped ==
  /\ call.f = "addLogToBuffer" /\ call.done
  /\ call.arg = [ring |-> <<>>, logs |-> <<"x", "y", "x">>]
  /\ call.res = <<"x", "y">>

\* C29: for a chunk that is a concatenation of correctly framed records
\* (zero-length payloads included) the parser yields the concatenation of
\* the payloads; for a chunk whose first header is structurally invalid it
\* yields the whole chunk.
ParserYieldsPayloads ==
  (call.f = "parseFrames" /\ call.done) =>
    call.res = IF call.arg.framed THEN Concat(call.arg.payloads)
               ELSE call.arg.chunk
\* one framed record with an empty payload: the parser returned its header
EmptyRecordYieldsHeader ==
  /\ call.f = "parseFrames" /\ call.done
  /\ call.arg.chunk = Framed(1, <<>>)
  /\ call.arg.framed
  /\ call.res = <<1, 0, 0, 0, 0, 0, 0, 0>>

\* the piece with every placeholder of a variable replaced by its value
Substituted(piece, variables) ==
  IF \E i \in DOMAIN variables : Placeholder(variables[i].name) = piece
  THEN ValueOf(variables[CHOOSE i \in DOMAIN variables :
                           Placeholder(variables[i].name) = piece])
  ELSE piece

\* C30: templating replaces every occurrence of %name% of each variable,
\* once per occurrence, with currentValue when defined and defaultValue
\* otherwise, and leaves placeholders of no variable unchanged.
TemplatesEveryOccurrence ==
  (call.f = "processVariables" /\ call.done) =>
    call.res = Concat([i \in DOMAIN call.arg.pieces |->
                         Substituted(call.arg.pieces[i], call.arg.variables)])
\* %a%x%a% with a = 1: only the first %a% was replaced
SecondOccurrenceLeft ==
  /\ call.f = "processVariables" /\ call.done
  /\ call.arg.input = <<"%", "a", "%", "x", "%", "a", "%">>
  /\ call.arg.variables = <<VarA>>
  /\ call.res = <<"1", "x", "%", "a", "%">>

\* C26: one broadcast for a server id sends its frame only to sessions that
\* are authenticated, have an open socket and belong to that server id, and
\* to at most 10 of them: the first ones in the session map; the others
\* are skipped.
BroadcastCapped ==
  (call.f = "broadcastToServer" /\ call.done) =>
    /\ \A i \in call.res :
         /\ call.arg[i].internalId = ServerId
         /\ call.arg[i].authenticated
         /\ call.arg[i].open
    /\ Cardinality(call.res) <= 10
    /\ \A i \in DOMAIN call.arg \ call.res :
         \/ call.arg[i].internalId # ServerId
         \/ ~call.arg[i].open
         \/ \A j \in call.res : j < i
    /\ Cardinality(call.res) < 10 =>
         call.res = {i \in DOMAIN call.arg :
                       call.arg[i].internalId = ServerId /\ call.arg[i].open}
\* 12 sessions, the third one of another server: sent to the first 10 of
\* the other 11, the last one skipped
BroadcastSkipsLast ==
  /\ call.f = "broadcastToServer" /\ call.done
  /\ Len(call.arg) = 12
  /\ call.arg[3].internalId = OtherId
  /\ call.res = (1..11) \ {3}

\* the connection c was answered from the cache: its handler went on
\* without the validation call
FromCache(c) ==
  /\ sock[c].pc = "none" /\ sock'[c].pc # "none"
  /\ sock'[c].token # NULL
  /\ sock'[c].pc # "validate"

\* C21: a cached verdict decides a connection only if it was inserted less
\* than CACHE_TTL earlier for the same token, and authenticates it only if
\* it says valid; a sweep leaves no entry older than CACHE_TTL.
CacheAuthenticatesFresh ==
  /\ [][\A c \in Conns : FromCache(c) =>
          LET e == cache[sock'[c].token] IN
          /\ e # NoEntry
          /\ now - e.timestamp < CACHE_TTL
          /\ sock'[c].pc = "setupRead" <=> e.validation = "valid"]_vars
  /\ [][Sweep => \A t \in Tokens :
          cache'[t] # NoEntry => now - cache'[t].timestamp <= CACHE_TTL]_vars
  /\ [][\A c \in Conns :
          (sock[c].pc = "none" /\ sock'[c].token # NULL
           /\ ~Fresh(sock'[c].token)) => sock'[c].pc = "validate"]_vars
\* the second connection presented the token of the first one half a TTL
\* after its validation and was set up without a panel call
CacheHitWithinTtl ==
  /\ sock[1].calls = 1 /\ sock[1].token = "t1"
  /\ sock[2].calls = 0 /\ sock[2].token = "t1"
  /\ sock[2].pc = "setupRead"
  /\ cache["t1"] # NoEntry /\ now - cache["t1"].timestamp = TimeStep

\* the panel has validated the token of connection d successfully
PanelValidated(d) ==
  /\ sock[d].calls = 1
  /\ sock[d].pc \in {"setupRead", "setupInspect", "setupStats",
                     "setupAttach", "open"}

\* C22: the cache is consulted first, and after a successful panel
\* validation of a token every later connection that presents the token
\* within CACHE_TTL is validated from the cache, without a panel call.
LaterConnectionsFromCache ==
  [][\A c, d \in Conns :
       (/\ c # d
        /\ PanelValidated(d)
        /\ now < CACHE_TTL
        /\ sock[c].pc = "none" /\ sock'[c].pc # "none"
        /\ sock'[c].token = sock[d].token)
         => sock'[c].pc = "setupRead"]_vars
\* the first session was closed and its close handler deleted the entry:
\* the second connection, at the same time and with the same token, led to
\* a second panel call
RevalidatedAfterClose ==
  /\ sock[1].pc = "open" /\ sock[1].evt /\ sock[1].calls = 1
  /\ sock[2].token = sock[1].token
  /\ sock[2].calls = 1
  /\ now = 0

\* the log attacher of connection c has been started
AttacherStarted(c) ==
  \/ \E x \in StreamIds : streams[x].owner = c
  \/ retry[c] # {}

\* C23: session setup closes with 1011 when the record names no container;
\* otherwise the socket is sent, in this order, the last entries of the ring
\* (at most 10), one stats frame and auth_success, and the log attacher and
\* the stats sampler are started only after that.
SetupOrder ==
  /\ [][\A c \in Conns :
          (sock[c].pc = "setupRead" /\ sock'[c].pc # "setupRead"
           /\ rec.docker_id = NoContainer)
            => /\ sock'[c].pc = "end"
               /\ sock[c].code = Open => sock'[c].code = InternalError]_vars
  /\ [](\A c \in Conns :
          LET fr == sock[c].frames
              h == IF Len(ring) <= 10 THEN Len(ring) ELSE 10 IN
          /\ Len(fr) <= h + 2
          /\ \A i \in 1..Len(fr) :
               fr[i] = IF i <= h
                       THEN Frame("console_output", ring[Len(ring) - h + i])
                       ELSE IF i = h + 1 THEN Frame("stats", NULL)
                       ELSE Frame("auth_success", NULL)
          /\ (AttacherStarted(c) \/ sock[c].sampler) =>
               /\ sock[c].pc = "open"
               /\ sock[c].code = Open => Len(fr) = h + 2)
\* a session on a ring of 11 entries: entries 2 to 11, stats, auth_success,
\* then the stream and the sampler
SetupOrderWitness ==
  /\ Len(ring) = 11
  /\ Len(sock[1].frames) = 12
  /\ sock[1].frames[1] = Frame("console_output", ring[2])
  /\ sock[1].frames[12].ev = "auth_success"
  /\ sock[1].pc = "open" /\ sock[1].sampler
  /\ \E x \in StreamIds : streams[x].owner = 1 /\ sock[1].logStream = x

\* an error frame was added to the frames of connection c in this step
ErrorFrameSent(c) ==
  /\ Len(sock'[c].frames) = Len(sock[c].frames) + 1
  /\ sock'[c].frames[Len(sock'[c].frames)].ev = "error"
  /\ SubSeq(sock'[c].frames, 1, Len(sock[c].frames)) = sock[c].frames
\* an inbound message longer than MAX_PAYLOAD_SIZE starts no power action
\* and is answered with an error frame
OversizeInboundRefused ==
  [][\A c \in Conns :
       (nmsg' = nmsg + 1 /\ pw'[c].action = "oversize")
         => /\ ErrorFrameSent(c)
            /\ pw'[c].pc = "done"
            /\ containers' = containers /\ ring' = ring]_vars
\* stream x completes a line longer than MAX_PAYLOAD_SIZE (the first part of
\* the line has passed the rate limiter)
OversizeLineRead(x) ==
  /\ streams[x].live /\ streams[x].half
  /\ streams[x].next \in big
  /\ streams'[x].next = streams[x].next + 1

\* C24: a message longer than MAX_PAYLOAD_SIZE is dropped with an error
\* frame: an inbound one starts no command and no power action, an outbound
\* log line is not sent, and either way the session gets an error frame.
OversizeDroppedWithError ==
  /\ OversizeInboundRefused
  /\ [][\A x \in StreamIds :
          (OversizeLineRead(x) /\ sock[streams[x].owner].code = Open)
            => /\ ring' = ring
               /\ ErrorFrameSent(streams[x].owner)]_vars
\* the stream of the open session holds the first part of a line that is too
\* long: the data handler's next chunk completes it, and the handler skips it
OversizeLineSkippedSilently ==
  /\ 1 \in big
  /\ sock[1].pc = "open" /\ sock[1].code = Open
  /\ \E x \in StreamIds :
       /\ streams[x].owner = 1 /\ streams[x].live
       /\ streams[x].next = 1 /\ streams[x].half
  /\ \A i \in 1..Len(sock[1].frames) : sock[1].frames[i].ev # "error"

\* the handling of a message of connection c fails in this step
MessageFails(c) ==
  /\ pw'[c].reply = "error"
  /\ nmsg' = nmsg + 1 \/ pw[c].reply # "error"

\* C25: when handling a message of an open session fails (malformed JSON,
\* oversize payload, unknown or illegal power action, failed container
\* operation), the session is sent an error frame, its socket stays open and
\* the session stays registered.
MessageErrorKeepsSession ==
  [][\A c \in Conns :
       (MessageFails(c) /\ sock[c].code = Open)
         => /\ Len(sock'[c].frames) > Len(sock[c].frames)
            /\ sock'[c].frames[Len(sock'[c].frames)].ev = "error"
            /\ sock'[c].code = Open
            /\ sock'[c].session /\ sock'[c].pc = "open"]_vars
\* a stop of the running container failed at the engine: the session was
\* sent the error and is still open and registered
FailedStopKeepsSession ==
  /\ pw[1].action = "stop" /\ pw[1].reply = "error"
  /\ \E k \in ContainerIds : IsRunning(k) /\ sock[1].container = k
  /\ sock[1].code = Open /\ sock[1].session
  /\ sock[1].frames[Len(sock[1].frames)] = Frame("error", "failed stop")

\* connection c has a log stream that delivers data
LiveStreams(c) == {x \in StreamIds : streams[x].owner = c /\ streams[x].live}

\* C27: once the socket of a session has closed, whether during setup, while
\* live or while a re-attach is pending, its log stream is destroyed, its
\* stats sampler is stopped and no log attachment is started for it any more.
ClosedSessionStopped ==
  /\ [](\A c \in Conns :
          sock[c].evt => LiveStreams(c) = {} /\ ~sock[c].sampler)
  /\ [][\A c \in Conns :
          sock[c].evt => /\ retry'[c] \subseteq retry[c]
                         /\ \A x \in StreamIds :
                              (streams'[x].owner = c /\ streams'[x].live)
                                => streams'[x] = streams[x]]_vars
\* the socket closed while setup awaited container.logs(): the stream was
\* attached and the sampler started afterwards, and nothing ends them
AttachedAfterClose ==
  /\ sock[1].evt /\ sock[1].code = NormalClosure
  /\ sock[1].pc = "open"
  /\ sock[1].sampler
  /\ LiveStreams(1) # {}

\* an attempt that failed: no response, or a status outside 2xx
AttemptFailed(a) == a = Transport \/ a < 200 \/ a > 299
\* what is left of the loop: attempts and waits still possible
FetchLeft(r) ==
  2 * (maxRetries + 1 - r.attempt) - (IF r.pc = "sleep" THEN 1 ELSE 0)

\* C31: fetchConfig makes at most 3 attempts, returns the config of the
\* first attempt that succeeded, waits 1 s times the attempt number after
\* each failed attempt that has a next one, fails once 3 attempts have
\* failed, and terminates: an unfinished call is at an attempt or a wait,
\* and each step that does not finish it leaves less of the loop.
FetchRetries ==
  /\ [](call.f = "fetchServerConfig" =>
         LET r == call.res
             answers == call.arg
             ok == {i \in 1..maxRetries : ~AttemptFailed(answers[i])}
             first == CHOOSE i \in ok : \A j \in ok : i <= j IN
         /\ r.attempt <= maxRetries + 1
         /\ Len(r.slept) <= maxRetries - 1
         /\ \A i \in 1..Len(r.slept) : r.slept[i] = 1000 * i
         /\ call.done =>
              IF ok = {}
              THEN r.error /\ Len(r.slept) = maxRetries - 1
              ELSE /\ ~r.error /\ r.value = first
                   /\ Len(r.slept) = first - 1)
  /\ [](call.f = "fetchServerConfig" /\ ~call.done =>
         /\ call.res.pc \in {"get", "sleep"}
         /\ call.res.attempt <= maxRetries)
  /\ [][call.f = "fetchServerConfig" /\ ~call'.done =>
         /\ FetchLeft(call'.res) < FetchLeft(call.res)
         /\ FetchLeft(call'.res) >= 0]_vars
\* the panel answered 201 to the first attempt and 200 to the second: the
\* config of the second attempt was returned, after no wait
SecondConfigReturned ==
  /\ call.f = "fetchServerConfig" /\ call.done
  /\ call.arg[1] = 201 /\ call.arg[2] = 200
  /\ call.res.value = 2 /\ call.res.slept = <<>>

\* the start of the 100 ms window chunk i of the arrival times falls in: the
\* first window starts when the stream is attached (time 0), and a chunk
\* arriving when the window has passed starts the next one
RECURSIVE WindowStart(_, _)
WindowStart(times, i) ==
  LET before == IF i = 1 THEN 0 ELSE WindowStart(times, i - 1) IN
  IF times[i] - before < 100 THEN before ELSE times[i]
\* the chunks that arrived before chunk i in its window
EarlierInWindow(times, i) ==
  {j \in 1..(i - 1) : WindowStart(times, j) = WindowStart(times, i)}

\* C32: a line is dropped exactly when 10 lines have already arrived in
\* its 100 ms window; lines of a later window are processed again.
BurstGuard ==
  (call.f = "rateLimit" /\ call.done) =>
    \A i \in 1..Len(call.arg) :
      call.res[i] <=> Cardinality(EarlierInWindow(call.arg, i)) < 10
\* 11 lines arrived at the instant that opened a window, and all 11 were
\* processed
EleventhLinePassed ==
  /\ call.f = "rateLimit" /\ call.done
  /\ call.arg = [i \in 1..11 |-> 100]
  /\ call.res = [i \in 1..11 |-> TRUE]

\* the log stream of the open session c fails or ends in this step
StreamLost(c) ==
  /\ sock[c].pc = "open" /\ sock'[c].code = Open
  /\ \E x \in StreamIds :
       /\ sock[c].logStream = x /\ streams[x].owner = c
       /\ streams[x].live /\ ~streams'[x].live

\* C33: when the log stream of a session fails or ends, a re-attach (5 s
\* later) is under way if the session's socket is open, and a re-attach is
\* started only for a session whose socket is open.
ReattachIffOpen ==
  [][\A c \in Conns :
       /\ StreamLost(c) => retry'[c] # {} \/ pw'[c].pc = "attach"
       /\ ("attaching" \in retry'[c] /\ "attaching" \notin retry[c])
            => sock[c].code = Open]_vars
\* the container was restarted over HTTP and runs: the stream of the open
\* session ended with the old run, no re-attach is pending and none is made
StreamEndedForGood ==
  /\ sock[1].pc = "open" /\ sock[1].code = Open
  /\ IsRunning(sock[1].container)
  /\ power.action = "restart" /\ power.pc = "done"
  /\ sock[1].logStream # NoStream
  /\ LiveStreams(1) = {} /\ retry[1] = {}
  /\ pw[1].pc = "idle"

\* C34: the state column of the record always holds one of the twelve
\* lifecycle states, whichever handler wrote it last.
StateIsLifecycleState == rec.exists => rec.state \in ServerState
\* the power endpoint stopped the container and wrote the engine's status
\* word into the state column
StateIsEngineStatus ==
  /\ rec.exists /\ rec.state = "exited"
  /\ power.pc = "done" /\ power.action = "stop" /\ power.status = 200

\* create (with its installation), reinstall and delete have run to their
\* end, and no other handler has been called
OnlyCreateDeleteReinstall ==
  /\ Idle(create) /\ Idle(reinstall) /\ Idle(del)
  /\ patch.pc = "idle" /\ power.pc = "idle"

\* C35: however create's installation interleaves with a delete or a
\* reinstall of the server, once they have finished every runtime container
\* that exists is the one the record's containerId names.
ContainersHaveRecord ==
  OnlyCreateDeleteReinstall =>
    \A k \in ContainerIds :
      Exists(k) => rec.exists /\ rec.docker_id = k
\* the server was deleted while its installation ran, when the record named
\* no container yet: delete removed none, create went on to make the runtime
\* container, and no record names it
ContainerOutlivesRecord ==
  /\ OnlyCreateDeleteReinstall
  /\ create.pc = "done" /\ create.status = 201
  /\ del.pc = "done" /\ del.status = 204 /\ del.docker_id = NoContainer
  /\ reinstall.pc = "idle"
  /\ ~rec.exists
  /\ Exists(create.dockerId)

\* C36: a console_output frame about the server (installer output, progress,
\* completion and failure notices) is sent only to a socket that is an
\* authenticated session of the server.
NoticesToSessionsOnly ==
  [][\A c \in Conns :
       (/\ Len(sock'[c].frames) > Len(sock[c].frames)
        /\ sock'[c].frames[Len(sock'[c].frames)].ev = "console_output")
         => sock[c].session]_vars
\* a client whose token the panel has not answered yet received installer
\* output of the server
NoticeBeforeValidation ==
  /\ sock[1].pc = "validate" /\ ~sock[1].session
  /\ sock[1].frames # <<>>
  /\ sock[1].frames[1] = Frame("console_output", "installer")

\* C37: every entry of the session registry belongs to a socket that is
\* still open: once the close event of a socket has been handled, or setup
\* has failed and closed it with 1011, the socket has no entry.
RegistryHoldsOpenSockets ==
  \A c \in Conns :
    sock[c].session => sock[c].code = Open \/ ~sock[c].evt
\* the stats read of setup failed after the session was registered: the
\* socket was closed with 1011, its close event has passed and the entry
\* is still there
FailedSetupStaysRegistered ==
  /\ sock[1].pc = "end" /\ sock[1].code = InternalError
  /\ sock[1].evt
  /\ sock[1].session

\* the positions of the frames of connection c that carry engine line i
LineFrames(c, i) ==
  {n \in 1..Len(sock[c].frames) :
     sock[c].frames[n] = Frame("console_output", LineText(i))}

\* C38: a session has at most one log stream with an active data handler at
\* any time, also when a re-arm by a power action and a delayed re-attach
\* run concurrently, and no line of the container reaches it twice.
OneLiveStream ==
  \A c \in Conns :
    /\ Cardinality(LiveStreams(c)) <= 1
    /\ \A i \in 1..MaxLines : Cardinality(LineFrames(c, i)) <= 1
\* two streams of the session are live, and it was sent the first line of
\* the container twice
LineDeliveredTwice ==
  /\ Cardinality(LiveStreams(1)) = 2
  /\ Cardinality(LineFrames(1, 1)) = 2

\* C39: every message a client sends after it has received auth_success is
\* handled by the session: the step that receives it starts the handler
\* (the power action begins, or an error frame is returned); none is
\* discarded
HasAuthSuccess(c) ==
  \E n \in 1..Len(sock[c].frames) : sock[c].frames[n].ev = "auth_success"
MessageHandled ==
  [][nmsg' = nmsg + 1 =>
       \E c \in Conns :
         /\ HasAuthSuccess(c)
         /\ \/ pw'[c] # pw[c]
            \/ Len(sock'[c].frames) > Len(sock[c].frames)]_vars
MessageDiscarded ==
  /\ nmsg = 1
  /\ HasAuthSuccess(1)
  /\ sock[1].pc = "open"
  /\ pw[1] = IdlePw
  /\ \A n \in 1..Len(sock[1].frames) : sock[1].frames[n].ev # "error"

\* C40: for every variable, the value substituted into the templated
\* startup command equals the value exported for it in the runtime
\* container's environment and in the install script: currentValue when
\* one is present (the empty string included), defaultValue otherwise
SameValueEverywhere ==
  (call.f = "variableValue" /\ call.done) =>
    /\ call.res.startup = ValueOf(call.arg)
    /\ call.res.env = call.arg.name \o <<"=">> \o call.res.startup
    /\ call.res.script =
         <<"export ">> \o call.arg.name \o <<"=", "\"">>
           \o call.res.startup \o <<"\"">>
\* currentValue "" and defaultValue "0": the startup command gets the empty
\* string, the environment and the install script get 0
EmptyValueDiffers ==
  /\ call.f = "variableValue" /\ call.done
  /\ call.arg.currentValue = <<>>
  /\ call.arg.defaultValue = <<"0">>
  /\ call.res.startup = <<>>
  /\ call.res.env = <<"A", "=", "0">>
  /\ call.res.script = <<"export ", "A", "=", "\"", "0", "\"">>

====
